---- MODULE Spec2Model ----
(***************************************************************************)
(* ReSTIR DI temporal reuse of the HIPRT path tracer: the resampling MIS    *)
(* weights (Device/includes/ReSTIR/DI/TemporalMISWeight.h), the             *)
(* normalization weights (.../TemporalNormalizationWeight.h), and the       *)
(* target function, the jacobian of the reconnection shift and the          *)
(* similarity heuristics (Device/includes/ReSTIR/ReSTIR_DI_Utils.h).        *)
(* Weighted reservoir sampling (combine) and the pixel task that strings    *)
(* these together follow the design document, their code being elsewhere.   *)
(*                                                                         *)
(* float values are modelled as reduced fractions [n, d] with d >= 0:       *)
(* d = 0 stands for the IEEE specials (n = 1: +inf, n = -1: -inf,           *)
(* n = 0: NaN).  Target function values are integer multiples of one unit   *)
(* of luminance.                                                            *)
(***************************************************************************)
EXTENDS Integers, Sequences, FiniteSets, TLC

\* ---------------------------------------------------------------- bounds
\* largest luminance (in units) the BSDF x emission x cosine x geometry
\* product takes at a surface
MaxF == 2
\* largest confidence M of a reservoir
MaxM == 2
\* largest weight_sum (in units) of the reservoir given to get_normalization
MaxWeightSum == 1
\* largest distance from a shading point to the sampled light point
MaxDist == 3
\* largest coordinate of a world-space point
MaxCoord == 1
\* largest number of candidates combined into one reservoir
MaxCandidates == 3
\* the uniform random numbers are the multiples of 1 / DrawSteps in [0, 1)
DrawSteps == 4

\* ------------------------------------------------------------- constants
TEMPORAL_NEIGHBOR_ID == 0
INITIAL_CANDIDATES_ID == 1

\* float jacobian_clamp = 20.0f
jacobian_clamp == 20

\* ------------------------------------------------------------ float model
Abs(x) == IF x < 0 THEN -x ELSE x

Sign(x) == IF x < 0 THEN -1 ELSE IF x > 0 THEN 1 ELSE 0

RECURSIVE GCD(_, _)
GCD(a, b) == IF b = 0 THEN a ELSE GCD(b, a % b)

\* the float n / d, reduced; a zero divisor gives the IEEE special
Float(n, d) ==
    IF d = 0 THEN [n |-> Sign(n), d |-> 0]
    ELSE LET g == GCD(Abs(n), Abs(d))
         IN  [n |-> (Sign(d) * n) \div g, d |-> Abs(d) \div g]

FromInt(i) == [n |-> i, d |-> 1]

NaN == [n |-> 0, d |-> 0]

FAdd(a, b) ==
    IF a.d = 0 /\ b.d = 0
    THEN (IF a.n = b.n THEN a ELSE NaN)
    ELSE Float(a.n * b.d + b.n * a.d, a.d * b.d)

FMul(a, b) == Float(a.n * b.n, a.d * b.d)

FDiv(a, b) == Float(a.n * b.d * (IF b.n < 0 THEN -1 ELSE 1), a.d * Abs(b.n))

\* a == 0.0f
FIsZero(a) == a.n = 0 /\ a.d # 0

\* a > 0
FGtZero(a) == a.n > 0

\* a <= 0
FLeZero(a) == a.n < 0 \/ FIsZero(a)

\* hippt::isNaN(a)
FIsNaN(a) == a.n = 0 /\ a.d = 0

\* a > b and a < b for a finite b: false when a is NaN, +inf is above and
\* -inf below every finite b
FGt(a, b) == a.n * b.d > b.n * a.d

FLt(a, b) == a.n * b.d < b.n * a.d

\* hippt::abs(a)
FAbs(a) == [n |-> Abs(a.n), d |-> a.d]

\* ------------------------------------------------------------ data types
\* ReSTIRDISample: the emissive triangle of the sample, -1 for "no sample"
Samples == [emissive_triangle_index : {-1, 0}]

\* ReSTIRDISurface, seen from the light sample of the call: the luminance of
\* bsdf_color * sample_emission * cosine_term * geometry_term at this surface
\* and the answer of the shadow ray cast from it toward the light point.
\* at_light: the shading point is the sampled light point itself, so that
\* distance_to_light is 0 and the geometry term is 0 / 0
Surfaces == [luminance : 0..MaxF, occluded : BOOLEAN, at_light : {FALSE}]

SurfacesAtLight == [luminance : {0}, occluded : BOOLEAN, at_light : {TRUE}]

\* ReSTIRDIReservoir
Reservoirs == [sample : Samples, M : 0..MaxM, weight_sum : 0..MaxWeightSum]

VARIABLES
    pc,                                 \* "start", then the function that ran
    ReSTIR_DI_BiasCorrectionUseVisiblity, \* kernel option (template argument)
    reservoir,                          \* reservoir / reservoir_being_resampled
    center_pixel_surface,
    temporal_neighbor_surface,
    initial_candidates_M,
    temporal_neighbor_M,
    current_neighbor,                   \* argument of get_resampling_MIS_weight
    selected_neighbor,                  \* argument of get_normalization
    mis_weight,                         \* value returned by get_resampling_MIS_weight
    out_normalization_nume,
    out_normalization_denom,
    tf_calls,                           \* target function calls made by the function
    bsdf_evals,                         \* BSDF evaluations made by those calls
    shadow_rays,                        \* shadow rays cast by those calls
    tf_value,                           \* value returned by the target function
    buffer_reads,                       \* material / triangle buffer reads it made
    tf_surface,                         \* the surface it was called with
    center_pixel_shading_point,         \* arguments of the jacobian, relative to
    neighbor_shading_point,             \*   the light sample of the neighbor
    jacobian,                           \* jacobian of the shift neighbor -> center
    jacobian_reverse,                   \* jacobian of the shift center -> neighbor
    restir_di_settings,                 \* the three thresholds of the heuristics
    temporal_neighbor_point,            \* g_buffer.first_hits[neighbor_index]
    neighbor_normal,                    \* g_buffer.shading_normals[neighbor_index]
    temporal_neighbor_roughness,        \* g_buffer.materials[neighbor_index].roughness
    current_material_roughness,         \* g_buffer.materials[center_pixel_index].roughness
    current_shading_point,
    current_normal,
    plane_distance_passed,
    normal_similarity_passed,
    roughness_similarity_passed,
    similarity_passed,                  \* value returned by check_similarity_heuristics
    working_reservoir,                  \* the reservoir candidates are combined into
    combined,                           \* the candidates combined so far, in order
    initial_candidates_reservoir,       \* this frame's reservoir of the pixel
    temporal_neighbor_reservoir,        \* the reprojected previous-frame reservoir
    bias_correction_mode,               \* ReSTIR_DI_BiasCorrectionWeights of the render
    visited,                            \* the states the pixel task went through
    reservoirs_written,                 \* reservoirs the task wrote to the output
    sample_number,                      \* render_settings.sample_number
    samples_per_frame,                  \* render_settings.samples_per_frame
    accumulate,                         \* render_settings.accumulate
    auto_sample_per_frame,              \* application_settings->auto_sample_per_frame
    DIRECT_LIGHT_SAMPLING_STRATEGY,     \* macro of the global compiler options
    temporal_buffer_clear_requested,    \* restir_di_settings.temporal_pass flag
    need_to_reset,                      \* render_settings.need_to_reset
    do_update_status_buffers,           \* render_settings.do_update_status_buffers
    freeze_random,                      \* render_settings.freeze_random
    m_rng,                              \* state of the renderer's Xorshift32Generator
    random_seed,                        \* m_render_data.random_seed
    sample_index,                       \* the i of the loop of render()
    launched,                           \* launch functions called in this iteration
    samples_since_reset,                \* samples rendered since the last reset()
    samples_since_zeroed,               \* ... since sample_number was last set to 0
    restir_di_launches_since_request,   \* ReSTIR DI launches since the last request
    restir_di_launch_saw_clear,         \* the flag as the last ReSTIR DI launch saw it
    temporal_buffer_clear_requests,     \* clear requests made so far
    host_calls,                         \* calls the application made to the renderer
    nb_threads,                         \* threads running load_scene_texture
    textures_size,                      \* parsed_scene.textures.size()
    constant_emissive,                  \* indices of the constant emissive textures
    thread_index,                       \* thread_index of each thread
    thread_returned,                    \* the threads whose call has returned
    processed_by,                       \* per texture index, the threads that read it
    textures,                           \* per slot of textures[], the writes made
    textures_dims,                      \* per slot of textures_dims[], the writes made
    reservoir_buffers,                  \* the two reservoir buffers, per pixel
    current_buffer_index,               \* which of the two is written this frame
    initial_candidates_buffer,          \* this frame's initial candidates, per pixel
    reprojected_pixel,                  \* per pixel, its pixel in the previous frame
    task_pc,                            \* per pixel, where its task of the pass is
    task_registers,                     \* per pixel, what its task has loaded
    previous_at_launch,                 \* the previous-frame buffer when the pass was launched
    reservoir_reads,                    \* the buffer reads of the tasks of the pass
    reservoir_writes,                   \* the buffer writes of the tasks of the pass
    frames_rendered                     \* passes completed

inputVars == <<ReSTIR_DI_BiasCorrectionUseVisiblity, reservoir,
               center_pixel_surface, temporal_neighbor_surface,
               initial_candidates_M, temporal_neighbor_M,
               current_neighbor, selected_neighbor>>

outputVars == <<mis_weight, out_normalization_nume, out_normalization_denom,
                tf_calls, bsdf_evals, shadow_rays>>

\* written by a direct call of ReSTIR_DI_evaluate_target_function
tfVars == <<tf_value, buffer_reads, tf_surface>>

\* arguments and results of get_jacobian_determinant_reconnection_shift
jacVars == <<center_pixel_shading_point, neighbor_shading_point,
             jacobian, jacobian_reverse>>

\* arguments and results of check_similarity_heuristics
heurVars == <<restir_di_settings, temporal_neighbor_point, neighbor_normal,
              temporal_neighbor_roughness, current_material_roughness,
              current_shading_point, current_normal, plane_distance_passed,
              normal_similarity_passed, roughness_similarity_passed,
              similarity_passed>>

\* the reservoir of combine and the record of what went into it
combVars == <<working_reservoir, combined>>

\* the two reservoirs a pixel task of the temporal pass reads
passVars == <<initial_candidates_reservoir, temporal_neighbor_reservoir,
              bias_correction_mode, visited, reservoirs_written>>

\* the settings and counters of GPURenderer
rendererVars == <<sample_number, samples_per_frame, accumulate,
                  auto_sample_per_frame, DIRECT_LIGHT_SAMPLING_STRATEGY,
                  temporal_buffer_clear_requested, need_to_reset,
                  do_update_status_buffers, freeze_random, m_rng, random_seed,
                  sample_index, launched, samples_since_reset,
                  samples_since_zeroed, restir_di_launches_since_request,
                  restir_di_launch_saw_clear, temporal_buffer_clear_requests,
                  host_calls>>

\* the texture loading threads and the scene they fill
threadVars == <<nb_threads, textures_size, constant_emissive, thread_index,
                thread_returned, processed_by, textures, textures_dims>>

\* the reservoir buffers and the tasks of a pass over them
bufferVars == <<reservoir_buffers, current_buffer_index, initial_candidates_buffer,
                reprojected_pixel, task_pc, task_registers, previous_at_launch,
                reservoir_reads, reservoir_writes, frames_rendered>>

\* everything on the host side
hostVars == <<rendererVars, threadVars, bufferVars>>

\* everything of the pixel task
pixelVars == <<inputVars, outputVars, tfVars, jacVars, heurVars, combVars, passVars>>

\* everything but the renderer
exceptRenderer == <<pixelVars, threadVars, bufferVars>>

\* everything but the texture loading threads
exceptThreads == <<pixelVars, rendererVars, bufferVars>>

vars == <<pc, inputVars, outputVars, tfVars, jacVars, heurVars, combVars, passVars,
         hostVars>>

\* ------------------------------------------------------- target function
\* (bsdf_color * sample_emission * cosine_term * geometry_term).luminance():
\* with distance_to_light = 0 the direction and the geometry term are NaN
SurfaceLuminance(surface) ==
    IF surface.at_light THEN NaN ELSE FromInt(surface.luminance)

\* ReSTIR_DI_evaluate_target_function<KERNEL_OPTION_FALSE>
ReSTIR_DI_evaluate_target_function_FALSE(sample, surface) ==
    IF sample.emissive_triangle_index = -1
    THEN [value |-> FromInt(0), bsdf_evals |-> 0, buffer_reads |-> 0, shadow_rays |-> 0]
    ELSE LET target_function == SurfaceLuminance(surface)
         IN  IF FIsZero(target_function)
             THEN [value |-> FromInt(0), bsdf_evals |-> 1, buffer_reads |-> 2,
                   shadow_rays |-> 0]
             ELSE [value |-> target_function, bsdf_evals |-> 1, buffer_reads |-> 2,
                   shadow_rays |-> 0]

\* ReSTIR_DI_evaluate_target_function<KERNEL_OPTION_TRUE>
ReSTIR_DI_evaluate_target_function_TRUE(sample, surface) ==
    IF sample.emissive_triangle_index = -1
    THEN [value |-> FromInt(0), bsdf_evals |-> 0, buffer_reads |-> 0, shadow_rays |-> 0]
    ELSE LET target_function == SurfaceLuminance(surface)
             visible == ~surface.occluded
         IN  IF FIsZero(target_function)
             THEN [value |-> FromInt(0), bsdf_evals |-> 1, buffer_reads |-> 2,
                   shadow_rays |-> 0]
             ELSE [value |-> FMul(target_function, FromInt(IF visible THEN 1 ELSE 0)),
                   bsdf_evals |-> 1, buffer_reads |-> 2, shadow_rays |-> 1]

\* template dispatch on <withVisiblity>
ReSTIR_DI_evaluate_target_function(withVisiblity, sample, surface) ==
    IF withVisiblity
    THEN ReSTIR_DI_evaluate_target_function_TRUE(sample, surface)
    ELSE ReSTIR_DI_evaluate_target_function_FALSE(sample, surface)

\* the target function evaluations a function went through, in call order,
\* summed up field by field
RECURSIVE SumBsdfEvals(_)
SumBsdfEvals(evals) ==
    IF evals = <<>> THEN 0 ELSE Head(evals).bsdf_evals + SumBsdfEvals(Tail(evals))

RECURSIVE SumShadowRays(_)
SumShadowRays(evals) ==
    IF evals = <<>> THEN 0 ELSE Head(evals).shadow_rays + SumShadowRays(Tail(evals))

\* what a function returns (ret), with the work it did on the way
Returned(val, evals) ==
    [ret |-> val,
     tf_calls |-> Len(evals),
     bsdf_evals |-> SumBsdfEvals(evals),
     shadow_rays |-> SumShadowRays(evals)]

\* -------------------------------------------------- resampling MIS weights
\* Parameters, as in the source: rbr = reservoir_being_resampled,
\* tns = temporal_neighbor_surface, cps = center_pixel_surface,
\* icM = initial_candidates_reservoir_M, tnM = temporal_neighbor_reservoir_M,
\* cn = current_neighbor.

\* ReSTIRDITemporalResamplingMISWeight<RESTIR_DI_BIAS_CORRECTION_1_OVER_M>
MISWeight_1_OVER_M(rbr, tns, cps, icM, tnM, cn) ==
    Returned(FromInt(rbr.M), <<>>)

\* ReSTIRDITemporalResamplingMISWeight<RESTIR_DI_BIAS_CORRECTION_1_OVER_Z>
MISWeight_1_OVER_Z(rbr, tns, cps, icM, tnM, cn) ==
    Returned(FromInt(rbr.M), <<>>)

\* ReSTIRDITemporalResamplingMISWeight<RESTIR_DI_BIAS_CORRECTION_MIS_LIKE>
MISWeight_MIS_LIKE(rbr, tns, cps, icM, tnM, cn) ==
    Returned(FromInt(1), <<>>)

\* bug: the confidence is read from the temporal neighbor's reservoir instead
\* of the reservoir being resampled
Mutant_MISWeight_MIS_LIKE_CONFIDENCE_WEIGHTS(rbr, tnr, tns, cps, cn) ==
    Returned(FromInt(tnr.M), <<>>)

\* ReSTIRDITemporalResamplingMISWeight<RESTIR_DI_BIAS_CORRECTION_MIS_LIKE_CONFIDENCE_WEIGHTS>
\* (tnr = temporal_neighbor_reservoir, which this specialization takes
\* instead of the two M values)
MISWeight_MIS_LIKE_CONFIDENCE_WEIGHTS(rbr, tnr, tns, cps, cn) ==
    Returned(FromInt(rbr.M), <<>>)

\* bug: the center pixel's target function is in the numerator for both
\* neighbors
Mutant_MISWeight_MIS_GBH_NumeCenter(rbr, tns, cps, icM, tnM, cn) ==
    LET evalsT == IF tnM # 0
                  THEN <<ReSTIR_DI_evaluate_target_function(
                             ReSTIR_DI_BiasCorrectionUseVisiblity, rbr.sample, tns)>>
                  ELSE <<>>
        target_function_at_temporal_neighbor ==
            IF tnM # 0 THEN evalsT[1].value ELSE FromInt(0)
        evalC == ReSTIR_DI_evaluate_target_function(
                     ReSTIR_DI_BiasCorrectionUseVisiblity, rbr.sample, cps)
        denom == FAdd(target_function_at_temporal_neighbor, evalC.value)
    IN  IF cn = TEMPORAL_NEIGHBOR_ID /\ FIsZero(target_function_at_temporal_neighbor)
        THEN Returned(FromInt(0), evalsT)
        ELSE Returned(IF FIsZero(denom) THEN FromInt(0) ELSE FDiv(evalC.value, denom),
                      Append(evalsT, evalC))

\* bug: the temporal neighbor's target function is evaluated even when there
\* is no temporal neighbor (temporal_neighbor_reservoir_M = 0)
Mutant_MISWeight_MIS_GBH_NoMCheck(rbr, tns, cps, icM, tnM, cn) ==
    LET evalT == ReSTIR_DI_evaluate_target_function(
                     ReSTIR_DI_BiasCorrectionUseVisiblity, rbr.sample, tns)
        evalC == ReSTIR_DI_evaluate_target_function(
                     ReSTIR_DI_BiasCorrectionUseVisiblity, rbr.sample, cps)
        denom == FAdd(evalT.value, evalC.value)
        nume == IF cn = TEMPORAL_NEIGHBOR_ID THEN evalT.value ELSE evalC.value
    IN  IF cn = TEMPORAL_NEIGHBOR_ID /\ FIsZero(evalT.value)
        THEN Returned(FromInt(0), <<evalT>>)
        ELSE Returned(IF FIsZero(denom) THEN FromInt(0) ELSE FDiv(nume, denom),
                      <<evalT, evalC>>)

\* bug: for the initial candidates the denominator leaves the temporal
\* neighbor out
Mutant_MISWeight_MIS_GBH_Denom(rbr, tns, cps, icM, tnM, cn) ==
    LET evalsT == IF tnM # 0
                  THEN <<ReSTIR_DI_evaluate_target_function(
                             ReSTIR_DI_BiasCorrectionUseVisiblity, rbr.sample, tns)>>
                  ELSE <<>>
        target_function_at_temporal_neighbor ==
            IF tnM # 0 THEN evalsT[1].value ELSE FromInt(0)
    IN  IF cn = TEMPORAL_NEIGHBOR_ID /\ FIsZero(target_function_at_temporal_neighbor)
        THEN Returned(FromInt(0), evalsT)
        ELSE LET evalC == ReSTIR_DI_evaluate_target_function(
                              ReSTIR_DI_BiasCorrectionUseVisiblity, rbr.sample, cps)
                 target_function_at_center == evalC.value
                 denom == IF cn = TEMPORAL_NEIGHBOR_ID
                          THEN FAdd(target_function_at_temporal_neighbor,
                                    target_function_at_center)
                          ELSE target_function_at_center
                 nume == IF cn = TEMPORAL_NEIGHBOR_ID
                         THEN target_function_at_temporal_neighbor
                         ELSE target_function_at_center
             IN  Returned(IF FIsZero(denom) THEN FromInt(0) ELSE FDiv(nume, denom),
                          Append(evalsT, evalC))

\* bug: the numerator is the target function at the other neighbor
Mutant_MISWeight_MIS_GBH_Swapped(rbr, tns, cps, icM, tnM, cn) ==
    LET evalsT == IF tnM # 0
                  THEN <<ReSTIR_DI_evaluate_target_function(
                             ReSTIR_DI_BiasCorrectionUseVisiblity, rbr.sample, tns)>>
                  ELSE <<>>
        target_function_at_temporal_neighbor ==
            IF tnM # 0 THEN evalsT[1].value ELSE FromInt(0)
    IN  IF cn = TEMPORAL_NEIGHBOR_ID /\ FIsZero(target_function_at_temporal_neighbor)
        THEN Returned(FromInt(0), evalsT)
        ELSE LET evalC == ReSTIR_DI_evaluate_target_function(
                              ReSTIR_DI_BiasCorrectionUseVisiblity, rbr.sample, cps)
                 target_function_at_center == evalC.value
                 denom == FAdd(target_function_at_temporal_neighbor,
                               target_function_at_center)
                 nume == IF cn = TEMPORAL_NEIGHBOR_ID
                         THEN target_function_at_center
                         ELSE target_function_at_temporal_neighbor
             IN  Returned(IF FIsZero(denom) THEN FromInt(0) ELSE FDiv(nume, denom),
                          Append(evalsT, evalC))

\* ReSTIRDITemporalResamplingMISWeight<RESTIR_DI_BIAS_CORRECTION_MIS_GBH>
MISWeight_MIS_GBH(rbr, tns, cps, icM, tnM, cn) ==
    LET evalsT == IF tnM # 0
                  THEN <<ReSTIR_DI_evaluate_target_function(
                             ReSTIR_DI_BiasCorrectionUseVisiblity, rbr.sample, tns)>>
                  ELSE <<>>
        target_function_at_temporal_neighbor ==
            IF tnM # 0 THEN evalsT[1].value ELSE FromInt(0)
    IN  IF cn = TEMPORAL_NEIGHBOR_ID /\ FIsZero(target_function_at_temporal_neighbor)
        THEN Returned(FromInt(0), evalsT)
        ELSE LET evalC == ReSTIR_DI_evaluate_target_function(
                              ReSTIR_DI_BiasCorrectionUseVisiblity, rbr.sample, cps)
                 target_function_at_center == evalC.value
                 denom == FAdd(target_function_at_temporal_neighbor,
                               target_function_at_center)
                 nume == IF cn = TEMPORAL_NEIGHBOR_ID
                         THEN target_function_at_temporal_neighbor
                         ELSE target_function_at_center
             IN  Returned(IF FIsZero(denom) THEN FromInt(0) ELSE FDiv(nume, denom),
                          Append(evalsT, evalC))

\* bug: the numerator is not scaled by the neighbor's M
Mutant_MISWeight_MIS_GBH_CONFIDENCE_WEIGHTS(rbr, tns, cps, icM, tnM, cn) ==
    LET evalsT == IF tnM # 0
                  THEN <<ReSTIR_DI_evaluate_target_function(
                             ReSTIR_DI_BiasCorrectionUseVisiblity, rbr.sample, tns)>>
                  ELSE <<>>
        target_function_at_temporal_neighbor ==
            IF tnM # 0 THEN evalsT[1].value ELSE FromInt(0)
        evalC == ReSTIR_DI_evaluate_target_function(
                     ReSTIR_DI_BiasCorrectionUseVisiblity, rbr.sample, cps)
        denom == FAdd(FMul(target_function_at_temporal_neighbor, FromInt(tnM)),
                      FMul(evalC.value, FromInt(icM)))
        nume == IF cn = TEMPORAL_NEIGHBOR_ID
                THEN target_function_at_temporal_neighbor
                ELSE evalC.value
    IN  IF cn = TEMPORAL_NEIGHBOR_ID /\ FIsZero(target_function_at_temporal_neighbor)
        THEN Returned(FromInt(0), evalsT)
        ELSE Returned(IF FIsZero(denom) THEN FromInt(0) ELSE FDiv(nume, denom),
                      Append(evalsT, evalC))

\* ReSTIRDITemporalResamplingMISWeight<RESTIR_DI_BIAS_CORRECTION_MIS_GBH_CONFIDENCE_WEIGHTS>
MISWeight_MIS_GBH_CONFIDENCE_WEIGHTS(rbr, tns, cps, icM, tnM, cn) ==
    LET evalsT == IF tnM # 0
                  THEN <<ReSTIR_DI_evaluate_target_function(
                             ReSTIR_DI_BiasCorrectionUseVisiblity, rbr.sample, tns)>>
                  ELSE <<>>
        target_function_at_temporal_neighbor ==
            IF tnM # 0 THEN evalsT[1].value ELSE FromInt(0)
    IN  IF cn = TEMPORAL_NEIGHBOR_ID /\ FIsZero(target_function_at_temporal_neighbor)
        THEN Returned(FromInt(0), evalsT)
        ELSE LET evalC == ReSTIR_DI_evaluate_target_function(
                              ReSTIR_DI_BiasCorrectionUseVisiblity, rbr.sample, cps)
                 target_function_at_center == evalC.value
                 denom == FAdd(FMul(target_function_at_temporal_neighbor, FromInt(tnM)),
                               FMul(target_function_at_center, FromInt(icM)))
                 nume == IF cn = TEMPORAL_NEIGHBOR_ID
                         THEN FMul(target_function_at_temporal_neighbor, FromInt(tnM))
                         ELSE FMul(target_function_at_center, FromInt(icM))
             IN  Returned(IF FIsZero(denom) THEN FromInt(0) ELSE FDiv(nume, denom),
                          Append(evalsT, evalC))

\* ---------------------------------------------------- normalization weights
\* Parameters, as in the source: res = reservoir, icM = initial_candidates_M,
\* tnM = temporal_neighbor_M, cps = center_pixel_surface,
\* tns = temporal_neighbor_surface, sn = selected_neighbor.
\* ret is <<out_normalization_nume, out_normalization_denom>>.

\* bug: the temporal neighbor's M is left out of the denominator
Mutant_Normalization_1_OVER_M(res, icM, tnM, cps, tns, sn) ==
    IF FLeZero(FromInt(res.weight_sum))
    THEN Returned(<<FromInt(1), FromInt(1)>>, <<>>)
    ELSE Returned(<<FromInt(1), FromInt(icM)>>, <<>>)

\* ReSTIRDITemporalNormalizationWeight<RESTIR_DI_BIAS_CORRECTION_1_OVER_M>
Normalization_1_OVER_M(res, icM, tnM, cps, tns, sn) ==
    IF FLeZero(FromInt(res.weight_sum))
    THEN Returned(<<FromInt(1), FromInt(1)>>, <<>>)
    ELSE Returned(<<FromInt(1), FromInt(icM + tnM)>>, <<>>)

\* bug: every neighbor's M is added, whatever its target function
Mutant_Normalization_1_OVER_Z_AllM(res, icM, tnM, cps, tns, sn) ==
    IF FLeZero(FromInt(res.weight_sum))
    THEN Returned(<<FromInt(1), FromInt(1)>>, <<>>)
    ELSE LET evalC == ReSTIR_DI_evaluate_target_function(
                          ReSTIR_DI_BiasCorrectionUseVisiblity, res.sample, cps)
         IN  IF tnM > 0
             THEN Returned(<<FromInt(1), FromInt(icM + tnM)>>,
                           <<evalC, ReSTIR_DI_evaluate_target_function(
                                        ReSTIR_DI_BiasCorrectionUseVisiblity,
                                        res.sample, tns)>>)
             ELSE Returned(<<FromInt(1), FromInt(icM)>>, <<evalC>>)

\* bug: no early return for an invalid reservoir
Mutant_Normalization_1_OVER_Z_NoGuard(res, icM, tnM, cps, tns, sn) ==
    LET evalC == ReSTIR_DI_evaluate_target_function(
                     ReSTIR_DI_BiasCorrectionUseVisiblity, res.sample, cps)
        denom1 == FromInt((IF FGtZero(evalC.value) THEN 1 ELSE 0) * icM)
    IN  IF tnM > 0
        THEN LET evalT == ReSTIR_DI_evaluate_target_function(
                              ReSTIR_DI_BiasCorrectionUseVisiblity, res.sample, tns)
             IN  Returned(<<FromInt(1),
                            FAdd(denom1, FromInt((IF FGtZero(evalT.value)
                                                  THEN 1 ELSE 0) * tnM))>>,
                          <<evalC, evalT>>)
        ELSE Returned(<<FromInt(1), denom1>>, <<evalC>>)

\* ReSTIRDITemporalNormalizationWeight<RESTIR_DI_BIAS_CORRECTION_1_OVER_Z>
Normalization_1_OVER_Z(res, icM, tnM, cps, tns, sn) ==
    IF FLeZero(FromInt(res.weight_sum))
    THEN Returned(<<FromInt(1), FromInt(1)>>, <<>>)
    ELSE LET evalC == ReSTIR_DI_evaluate_target_function(
                          ReSTIR_DI_BiasCorrectionUseVisiblity, res.sample, cps)
             center_pixel_target_function == evalC.value
             denom1 == FAdd(FromInt(0),
                            FromInt((IF FGtZero(center_pixel_target_function)
                                     THEN 1 ELSE 0) * icM))
         IN  IF tnM > 0
             THEN LET evalT == ReSTIR_DI_evaluate_target_function(
                                   ReSTIR_DI_BiasCorrectionUseVisiblity, res.sample, tns)
                      temporal_neighbor_target_function == evalT.value
                  IN  Returned(<<FromInt(1),
                                 FAdd(denom1,
                                      FromInt((IF FGtZero(temporal_neighbor_target_function)
                                               THEN 1 ELSE 0) * tnM))>>,
                               <<evalC, evalT>>)
             ELSE Returned(<<FromInt(1), denom1>>, <<evalC>>)

\* bug: the center pixel's target function is the numerator whichever
\* neighbor was selected
Mutant_Normalization_MIS_LIKE(res, icM, tnM, cps, tns, sn) ==
    IF FLeZero(FromInt(res.weight_sum))
    THEN Returned(<<FromInt(1), FromInt(1)>>, <<>>)
    ELSE LET evalC == ReSTIR_DI_evaluate_target_function(
                          ReSTIR_DI_BiasCorrectionUseVisiblity, res.sample, cps)
             evalsT == IF tnM > 0
                       THEN <<ReSTIR_DI_evaluate_target_function(
                                  ReSTIR_DI_BiasCorrectionUseVisiblity, res.sample, tns)>>
                       ELSE <<>>
             temporal_neighbor_target_function ==
                 IF tnM > 0 THEN evalsT[1].value ELSE FromInt(0)
         IN  Returned(<<evalC.value,
                        FAdd(evalC.value, temporal_neighbor_target_function)>>,
                      <<evalC>> \o evalsT)

\* ReSTIRDITemporalNormalizationWeight<RESTIR_DI_BIAS_CORRECTION_MIS_LIKE>
Normalization_MIS_LIKE(res, icM, tnM, cps, tns, sn) ==
    IF FLeZero(FromInt(res.weight_sum))
    THEN Returned(<<FromInt(1), FromInt(1)>>, <<>>)
    ELSE LET evalC == ReSTIR_DI_evaluate_target_function(
                          ReSTIR_DI_BiasCorrectionUseVisiblity, res.sample, cps)
             center_pixel_target_function == evalC.value
             evalsT == IF tnM > 0
                       THEN <<ReSTIR_DI_evaluate_target_function(
                                  ReSTIR_DI_BiasCorrectionUseVisiblity, res.sample, tns)>>
                       ELSE <<>>
             temporal_neighbor_target_function ==
                 IF tnM > 0 THEN evalsT[1].value ELSE FromInt(0)
             nume == IF sn = INITIAL_CANDIDATES_ID
                     THEN center_pixel_target_function
                     ELSE temporal_neighbor_target_function
             denom == FAdd(center_pixel_target_function,
                           temporal_neighbor_target_function)
         IN  Returned(<<nume, denom>>, <<evalC>> \o evalsT)

\* bug: the numerator is scaled by the selected neighbor's M as well
Mutant_Normalization_MIS_LIKE_CONFIDENCE_WEIGHTS(res, icM, tnM, cps, tns, sn) ==
    IF FLeZero(FromInt(res.weight_sum))
    THEN Returned(<<FromInt(1), FromInt(1)>>, <<>>)
    ELSE LET evalC == ReSTIR_DI_evaluate_target_function(
                          ReSTIR_DI_BiasCorrectionUseVisiblity, res.sample, cps)
             evalsT == IF tnM > 0
                       THEN <<ReSTIR_DI_evaluate_target_function(
                                  ReSTIR_DI_BiasCorrectionUseVisiblity, res.sample, tns)>>
                       ELSE <<>>
             temporal_neighbor_target_function ==
                 IF tnM > 0 THEN evalsT[1].value ELSE FromInt(0)
             nume == IF sn = INITIAL_CANDIDATES_ID
                     THEN FMul(evalC.value, FromInt(icM))
                     ELSE FMul(temporal_neighbor_target_function, FromInt(tnM))
             denom == FAdd(FMul(evalC.value, FromInt(icM)),
                           FMul(temporal_neighbor_target_function, FromInt(tnM)))
         IN  Returned(<<nume, denom>>, <<evalC>> \o evalsT)

\* ReSTIRDITemporalNormalizationWeight<RESTIR_DI_BIAS_CORRECTION_MIS_LIKE_CONFIDENCE_WEIGHTS>
Normalization_MIS_LIKE_CONFIDENCE_WEIGHTS(res, icM, tnM, cps, tns, sn) ==
    IF FLeZero(FromInt(res.weight_sum))
    THEN Returned(<<FromInt(1), FromInt(1)>>, <<>>)
    ELSE LET evalC == ReSTIR_DI_evaluate_target_function(
                          ReSTIR_DI_BiasCorrectionUseVisiblity, res.sample, cps)
             center_pixel_target_function == evalC.value
             evalsT == IF tnM > 0
                       THEN <<ReSTIR_DI_evaluate_target_function(
                                  ReSTIR_DI_BiasCorrectionUseVisiblity, res.sample, tns)>>
                       ELSE <<>>
             temporal_neighbor_target_function ==
                 IF tnM > 0 THEN evalsT[1].value ELSE FromInt(0)
             nume == IF sn = INITIAL_CANDIDATES_ID
                     THEN center_pixel_target_function
                     ELSE temporal_neighbor_target_function
             denom == FAdd(FMul(center_pixel_target_function, FromInt(icM)),
                           FMul(temporal_neighbor_target_function, FromInt(tnM)))
         IN  Returned(<<nume, denom>>, <<evalC>> \o evalsT)

\* bug: the 1/M normalization copied into the MIS-GBH specialization
Mutant_Normalization_MIS_GBH(res, icM, tnM, cps, tns, sn) ==
    IF FLeZero(FromInt(res.weight_sum))
    THEN Returned(<<FromInt(1), FromInt(1)>>, <<>>)
    ELSE Returned(<<FromInt(1), FromInt(icM + tnM)>>, <<>>)

\* ReSTIRDITemporalNormalizationWeight<RESTIR_DI_BIAS_CORRECTION_MIS_GBH>
Normalization_MIS_GBH(res, icM, tnM, cps, tns, sn) ==
    Returned(<<FromInt(1), FromInt(1)>>, <<>>)

\* ReSTIRDITemporalNormalizationWeight<RESTIR_DI_BIAS_CORRECTION_MIS_GBH_CONFIDENCE_WEIGHTS>
Normalization_MIS_GBH_CONFIDENCE_WEIGHTS(res, icM, tnM, cps, tns, sn) ==
    Returned(<<FromInt(1), FromInt(1)>>, <<>>)

\* ------------------------------------------------------------- the calls
\* value of an output that no call has written yet
Unset == NaN

\* no direct call of the target function has been made
NoSurface == [luminance |-> 0, occluded |-> FALSE, at_light |-> FALSE]

IdleTargetFunction ==
    /\ tf_surface = NoSurface
    /\ tf_value = Unset
    /\ buffer_reads = 0

\* a shading point as the jacobian sees it: its distance to the sampled light
\* point, hippt::length(point_on_light_source - shading_point), and the
\* component of point_on_light_source - shading_point along the unit
\* light_source_normal, which is within the distance
ShadingPoints ==
    {sp \in [distance_to_light : 0..MaxDist, along_normal : -MaxDist..MaxDist] :
        Abs(sp.along_normal) <= sp.distance_to_light}

NoShadingPoint == [distance_to_light |-> 0, along_normal |-> 0]

\* get_jacobian_determinant_reconnection_shift has not been called
IdleJacobian ==
    /\ center_pixel_shading_point = NoShadingPoint
    /\ neighbor_shading_point = NoShadingPoint
    /\ jacobian = Unset
    /\ jacobian_reverse = Unset

\* float3 with the components t[i] / unit
Vec(t, unit) == [i \in 1..3 |-> Float(t[i], unit)]

\* a - b on float3
VSub(a, b) == [i \in 1..3 |-> FAdd(a[i], FMul(FromInt(-1), b[i]))]

\* hippt::dot
Dot(a, b) == FAdd(FAdd(FMul(a[1], b[1]), FMul(a[2], b[2])), FMul(a[3], b[3]))

\* world-space points on the integer grid of the plane z = 0
Points ==
    {Vec(<<x, y, 0>>, 1) : x \in -MaxCoord..MaxCoord, y \in -MaxCoord..MaxCoord}

\* unit shading normals
Normals == {Vec(t, 5) : t \in {<<5, 0, 0>>, <<3, 4, 0>>, <<0, 5, 0>>, <<0, 0, 5>>}}

\* material roughness: 0, 0.05, 0.1, 0.15
Roughnesses == {Float(k, 20) : k \in 0..3}

\* render_data.render_settings.restir_di_settings
Settings ==
    [plane_distance_threshold : {Float(3, 5), FromInt(1)},
     normal_similarity_angle_precomp : {Float(3, 5), Float(4, 5)},
     roughness_similarity_threshold : {Float(1, 20), Float(1, 10)}]

NoSettings ==
    [plane_distance_threshold |-> Unset, normal_similarity_angle_precomp |-> Unset,
     roughness_similarity_threshold |-> Unset]

NoVec == Vec(<<0, 0, 0>>, 1)

\* check_similarity_heuristics has not been called
IdleHeuristics ==
    /\ restir_di_settings = NoSettings
    /\ temporal_neighbor_point = NoVec
    /\ neighbor_normal = NoVec
    /\ temporal_neighbor_roughness = Unset
    /\ current_material_roughness = Unset
    /\ current_shading_point = NoVec
    /\ current_normal = NoVec
    /\ plane_distance_passed = FALSE
    /\ normal_similarity_passed = FALSE
    /\ roughness_similarity_passed = FALSE
    /\ similarity_passed = FALSE

\* the six bias correction modes of the temporal pass
BiasCorrectionModes ==
    {"RESTIR_DI_BIAS_CORRECTION_1_OVER_M", "RESTIR_DI_BIAS_CORRECTION_1_OVER_Z",
     "RESTIR_DI_BIAS_CORRECTION_MIS_LIKE",
     "RESTIR_DI_BIAS_CORRECTION_MIS_LIKE_CONFIDENCE_WEIGHTS",
     "RESTIR_DI_BIAS_CORRECTION_MIS_GBH",
     "RESTIR_DI_BIAS_CORRECTION_MIS_GBH_CONFIDENCE_WEIGHTS"}

\* a fresh reservoir: no sample, nothing seen
FreshReservoir ==
    [sample |-> [emissive_triangle_index |-> -1], M |-> 0, weight_sum |-> FromInt(0)]

\* no candidate has been combined
IdleCombine ==
    /\ working_reservoir = FreshReservoir
    /\ combined = <<>>

NoSample == [emissive_triangle_index |-> -1]

\* no pixel task of the temporal pass is running
IdlePass ==
    /\ initial_candidates_reservoir = [sample |-> NoSample, M |-> 0, weight |-> Unset]
    /\ temporal_neighbor_reservoir = [sample |-> NoSample, M |-> 0]
    /\ bias_correction_mode = "RESTIR_DI_BIAS_CORRECTION_1_OVER_M"
    /\ visited = <<>>
    /\ reservoirs_written = 0

\* ------------------------------------------------------------- xorshift
\* An unsigned int is the set of the positions of its bits that are 1, so
\* that the arithmetic keeps its 32 bits.
UINT_BITS == 32

\* the unsigned int of a non-negative int literal
ToBits(n) == {b \in 0..(UINT_BITS - 2) : (n \div (2 ^ b)) % 2 = 1}

\* x ^ y
BitXor(x, y) == (x \ y) \cup (y \ x)

\* x << k, the bits shifted out of the word are lost
ShiftLeft(x, k) == {b + k : b \in {c \in x : c + k < UINT_BITS}}

\* x >> k
ShiftRight(x, k) == {b - k : b \in {c \in x : c >= k}}

\* the state xorshift32() leaves in m_state, which is also what it returns
Mutant_xorshift32_NoMiddleShift(state) ==
    LET x1 == BitXor(state, ShiftLeft(state, 13))
    IN  BitXor(x1, ShiftLeft(x1, 5))

xorshift32(state) ==
    LET x1 == BitXor(state, ShiftLeft(state, 13))
        x2 == BitXor(x1, ShiftRight(x1, 17))
    IN  BitXor(x2, ShiftLeft(x2, 5))

\* m_rng.m_state.seed = 42
RendererSeed == 42

\* ------------------------------------------------------------- renderer
\* DIRECT_LIGHT_SAMPLING_STRATEGY is LSS_RESTIR_DI or another strategy
LightSamplingStrategies == {"LSS_RESTIR_DI", "LSS_OTHER"}

\* the renderer as its constructor and the defaults of HIPRTRenderSettings
\* leave it, no call made yet
\* no pass over the reservoir buffers is running
IdleBuffers ==
    /\ reservoir_buffers = <<>>
    /\ current_buffer_index = 0
    /\ initial_candidates_buffer = <<>>
    /\ reprojected_pixel = <<>>
    /\ task_pc = <<>>
    /\ task_registers = <<>>
    /\ previous_at_launch = <<>>
    /\ reservoir_reads = {}
    /\ reservoir_writes = {}
    /\ frames_rendered = 0

IdleRendererExceptClear ==
    /\ sample_number = 0
    /\ samples_per_frame = 1
    /\ accumulate = TRUE
    /\ auto_sample_per_frame = FALSE
    /\ DIRECT_LIGHT_SAMPLING_STRATEGY = "LSS_RESTIR_DI"
    /\ need_to_reset = TRUE
    /\ do_update_status_buffers = FALSE
    /\ freeze_random = FALSE
    /\ m_rng = ToBits(RendererSeed)
    /\ random_seed = ToBits(RendererSeed)
    /\ sample_index = 0
    /\ launched = <<>>
    /\ samples_since_reset = 0
    /\ samples_since_zeroed = 0
    /\ restir_di_launches_since_request = 0
    /\ restir_di_launch_saw_clear = FALSE
    /\ temporal_buffer_clear_requests = 0
    /\ host_calls = 0

\* the renderer as its constructor leaves it, no clear requested
IdleRenderer ==
    /\ IdleRendererExceptClear
    /\ temporal_buffer_clear_requested = FALSE

\* no texture is being loaded
IdleThreads ==
    /\ nb_threads = 0
    /\ textures_size = 0
    /\ constant_emissive = {}
    /\ thread_index = <<>>
    /\ thread_returned = {}
    /\ processed_by = <<>>
    /\ textures = <<>>
    /\ textures_dims = <<>>

\* nothing on the host side is running
IdleHost == IdleRenderer /\ IdleThreads /\ IdleBuffers

\* nothing outside get_resampling_MIS_weight / get_normalization is running
IdleUtils ==
    /\ IdleTargetFunction /\ IdleJacobian /\ IdleHeuristics /\ IdleCombine /\ IdlePass
    /\ IdleHost

NoOutputs ==
    /\ mis_weight = Unset
    /\ out_normalization_nume = Unset
    /\ out_normalization_denom = Unset
    /\ tf_calls = 0
    /\ bsdf_evals = 0
    /\ shadow_rays = 0

\* the arguments of one call of get_resampling_MIS_weight
InitMISWeight ==
    /\ pc = "start"
    /\ ReSTIR_DI_BiasCorrectionUseVisiblity \in BOOLEAN
    /\ reservoir \in Reservoirs
    /\ center_pixel_surface \in Surfaces
    /\ temporal_neighbor_surface \in Surfaces
    /\ initial_candidates_M \in 0..MaxM
    /\ temporal_neighbor_M \in 0..MaxM
    /\ current_neighbor \in {TEMPORAL_NEIGHBOR_ID, INITIAL_CANDIDATES_ID}
    /\ selected_neighbor = INITIAL_CANDIDATES_ID
    /\ NoOutputs
    /\ IdleUtils

\* the arguments of one call of get_normalization
InitNormalization ==
    /\ pc = "start"
    /\ ReSTIR_DI_BiasCorrectionUseVisiblity \in BOOLEAN
    /\ reservoir \in Reservoirs
    /\ center_pixel_surface \in Surfaces
    /\ temporal_neighbor_surface \in Surfaces
    /\ initial_candidates_M \in 0..MaxM
    /\ temporal_neighbor_M \in 0..MaxM
    /\ current_neighbor = INITIAL_CANDIDATES_ID
    /\ selected_neighbor \in {TEMPORAL_NEIGHBOR_ID, INITIAL_CANDIDATES_ID}
    /\ NoOutputs
    /\ IdleUtils

\* get_resampling_MIS_weight returns r
ReturnMISWeight(r) ==
    /\ mis_weight' = r.ret
    /\ tf_calls' = r.tf_calls
    /\ bsdf_evals' = r.bsdf_evals
    /\ shadow_rays' = r.shadow_rays
    /\ UNCHANGED <<inputVars, out_normalization_nume, out_normalization_denom,
                   tfVars, jacVars, heurVars, combVars, passVars,
                   hostVars>>

\* get_normalization returns r
ReturnNormalization(r) ==
    /\ out_normalization_nume' = r.ret[1]
    /\ out_normalization_denom' = r.ret[2]
    /\ tf_calls' = r.tf_calls
    /\ bsdf_evals' = r.bsdf_evals
    /\ shadow_rays' = r.shadow_rays
    /\ UNCHANGED <<inputVars, mis_weight, tfVars, jacVars, heurVars, combVars,
                   passVars,
                   hostVars>>

GetResamplingMISWeight_1_OVER_M ==
    /\ pc = "start"
    /\ pc' = "MISWeight_1_OVER_M"
    /\ ReturnMISWeight(
        MISWeight_1_OVER_M(reservoir, temporal_neighbor_surface, center_pixel_surface,
                           initial_candidates_M, temporal_neighbor_M, current_neighbor))

GetResamplingMISWeight_1_OVER_Z ==
    /\ pc = "start"
    /\ pc' = "MISWeight_1_OVER_Z"
    /\ ReturnMISWeight(
        MISWeight_1_OVER_Z(reservoir, temporal_neighbor_surface, center_pixel_surface,
                           initial_candidates_M, temporal_neighbor_M, current_neighbor))

GetResamplingMISWeight_MIS_LIKE ==
    /\ pc = "start"
    /\ pc' = "MISWeight_MIS_LIKE"
    /\ ReturnMISWeight(
        MISWeight_MIS_LIKE(reservoir, temporal_neighbor_surface, center_pixel_surface,
                           initial_candidates_M, temporal_neighbor_M, current_neighbor))

GetResamplingMISWeight_MIS_LIKE_CONFIDENCE_WEIGHTS ==
    /\ pc = "start"
    /\ pc' = "MISWeight_MIS_LIKE_CONFIDENCE_WEIGHTS"
    /\ ReturnMISWeight(
        MISWeight_MIS_LIKE_CONFIDENCE_WEIGHTS(
            reservoir,
            [sample |-> reservoir.sample, M |-> temporal_neighbor_M,
             weight_sum |-> reservoir.weight_sum],
            temporal_neighbor_surface, center_pixel_surface, current_neighbor))

GetResamplingMISWeight_MIS_GBH ==
    /\ pc = "start"
    /\ pc' = "MISWeight_MIS_GBH"
    /\ ReturnMISWeight(
        MISWeight_MIS_GBH(reservoir, temporal_neighbor_surface, center_pixel_surface,
                          initial_candidates_M, temporal_neighbor_M, current_neighbor))

GetResamplingMISWeight_MIS_GBH_CONFIDENCE_WEIGHTS ==
    /\ pc = "start"
    /\ pc' = "MISWeight_MIS_GBH_CONFIDENCE_WEIGHTS"
    /\ ReturnMISWeight(
        MISWeight_MIS_GBH_CONFIDENCE_WEIGHTS(
            reservoir, temporal_neighbor_surface, center_pixel_surface,
            initial_candidates_M, temporal_neighbor_M, current_neighbor))

GetNormalization_1_OVER_M ==
    /\ pc = "start"
    /\ pc' = "Normalization_1_OVER_M"
    /\ ReturnNormalization(
        Normalization_1_OVER_M(reservoir, initial_candidates_M, temporal_neighbor_M,
                               center_pixel_surface, temporal_neighbor_surface,
                               selected_neighbor))

GetNormalization_1_OVER_Z ==
    /\ pc = "start"
    /\ pc' = "Normalization_1_OVER_Z"
    /\ ReturnNormalization(
        Normalization_1_OVER_Z(reservoir, initial_candidates_M, temporal_neighbor_M,
                               center_pixel_surface, temporal_neighbor_surface,
                               selected_neighbor))

GetNormalization_MIS_LIKE ==
    /\ pc = "start"
    /\ pc' = "Normalization_MIS_LIKE"
    /\ ReturnNormalization(
        Normalization_MIS_LIKE(reservoir, initial_candidates_M, temporal_neighbor_M,
                               center_pixel_surface, temporal_neighbor_surface,
                               selected_neighbor))

GetNormalization_MIS_LIKE_CONFIDENCE_WEIGHTS ==
    /\ pc = "start"
    /\ pc' = "Normalization_MIS_LIKE_CONFIDENCE_WEIGHTS"
    /\ ReturnNormalization(
        Normalization_MIS_LIKE_CONFIDENCE_WEIGHTS(
            reservoir, initial_candidates_M, temporal_neighbor_M,
            center_pixel_surface, temporal_neighbor_surface, selected_neighbor))

GetNormalization_MIS_GBH ==
    /\ pc = "start"
    /\ pc' = "Normalization_MIS_GBH"
    /\ ReturnNormalization(
        Normalization_MIS_GBH(reservoir, initial_candidates_M, temporal_neighbor_M,
                              center_pixel_surface, temporal_neighbor_surface,
                              selected_neighbor))

GetNormalization_MIS_GBH_CONFIDENCE_WEIGHTS ==
    /\ pc = "start"
    /\ pc' = "Normalization_MIS_GBH_CONFIDENCE_WEIGHTS"
    /\ ReturnNormalization(
        Normalization_MIS_GBH_CONFIDENCE_WEIGHTS(
            reservoir, initial_candidates_M, temporal_neighbor_M,
            center_pixel_surface, temporal_neighbor_surface, selected_neighbor))

NextMISWeight ==
    \/ GetResamplingMISWeight_1_OVER_M
    \/ GetResamplingMISWeight_1_OVER_Z
    \/ GetResamplingMISWeight_MIS_LIKE
    \/ GetResamplingMISWeight_MIS_LIKE_CONFIDENCE_WEIGHTS
    \/ GetResamplingMISWeight_MIS_GBH
    \/ GetResamplingMISWeight_MIS_GBH_CONFIDENCE_WEIGHTS

NextNormalization ==
    \/ GetNormalization_1_OVER_M
    \/ GetNormalization_1_OVER_Z
    \/ GetNormalization_MIS_LIKE
    \/ GetNormalization_MIS_LIKE_CONFIDENCE_WEIGHTS
    \/ GetNormalization_MIS_GBH
    \/ GetNormalization_MIS_GBH_CONFIDENCE_WEIGHTS

\* one call of get_resampling_MIS_weight, in any of the six modes
SpecMISWeight == InitMISWeight /\ [][NextMISWeight]_vars

\* one call of get_normalization, in any of the six modes
SpecNormalization == InitNormalization /\ [][NextNormalization]_vars

\* ------------------------------------------- calls of the target function
\* the arguments of one call of ReSTIR_DI_evaluate_target_function: the
\* sample of a reservoir and a surface, which may be at the light point
InitTargetFunction ==
    /\ pc = "start"
    /\ ReSTIR_DI_BiasCorrectionUseVisiblity \in BOOLEAN
    /\ reservoir \in Reservoirs
    /\ center_pixel_surface \in Surfaces \cup SurfacesAtLight
    /\ temporal_neighbor_surface \in Surfaces \cup SurfacesAtLight
    /\ initial_candidates_M = 0
    /\ temporal_neighbor_M = 0
    /\ current_neighbor = INITIAL_CANDIDATES_ID
    /\ selected_neighbor = INITIAL_CANDIDATES_ID
    /\ NoOutputs
    /\ IdleUtils

\* ReSTIR_DI_evaluate_target_function returns eval
ReturnTargetFunction(surface, eval) ==
    /\ tf_surface' = surface
    /\ tf_value' = eval.value
    /\ tf_calls' = 1
    /\ bsdf_evals' = eval.bsdf_evals
    /\ buffer_reads' = eval.buffer_reads
    /\ shadow_rays' = eval.shadow_rays
    /\ UNCHANGED <<inputVars, mis_weight, out_normalization_nume,
                   out_normalization_denom, jacVars, heurVars, combVars, passVars,
                   hostVars>>

EvaluateTargetFunction_FALSE ==
    /\ pc = "start"
    /\ \E surface \in {center_pixel_surface, temporal_neighbor_surface} :
           ReturnTargetFunction(surface,
               ReSTIR_DI_evaluate_target_function_FALSE(reservoir.sample, surface))
    /\ pc' = "TargetFunction_FALSE"

EvaluateTargetFunction_TRUE ==
    /\ pc = "start"
    /\ \E surface \in {center_pixel_surface, temporal_neighbor_surface} :
           ReturnTargetFunction(surface,
               ReSTIR_DI_evaluate_target_function_TRUE(reservoir.sample, surface))
    /\ pc' = "TargetFunction_TRUE"

NextTargetFunction ==
    \/ EvaluateTargetFunction_FALSE
    \/ EvaluateTargetFunction_TRUE

\* one call of either variant of the target function
SpecTargetFunction == InitTargetFunction /\ [][NextTargetFunction]_vars

\* ------------------------------------ jacobian of the reconnection shift
\* bug: no hippt::isNaN test
Mutant_get_jacobian_determinant_reconnection_shift_NoNaN(center, neighbor) ==
    LET distance_to_light_at_center == FromInt(center.distance_to_light)
        distance_to_light_at_neighbor == FromInt(neighbor.distance_to_light)
        cosine_light_source_at_center ==
            FAbs(FDiv(FromInt(-center.along_normal), distance_to_light_at_center))
        cosine_light_source_at_neighbor ==
            FAbs(FDiv(FromInt(-neighbor.along_normal), distance_to_light_at_neighbor))
        cosine_ratio == FDiv(cosine_light_source_at_center, cosine_light_source_at_neighbor)
        distance_squared_ratio ==
            FDiv(FMul(distance_to_light_at_neighbor, distance_to_light_at_neighbor),
                 FMul(distance_to_light_at_center, distance_to_light_at_center))
        jac == FMul(cosine_ratio, distance_squared_ratio)
    IN  IF \/ FGt(jac, FromInt(jacobian_clamp))
           \/ FLt(jac, FDiv(FromInt(1), FromInt(jacobian_clamp)))
        THEN FromInt(-1)
        ELSE jac

\* bug: the lower end of the clamp is 1 / 10 while the upper end stays 20
Mutant_get_jacobian_determinant_reconnection_shift_Clamp(center, neighbor) ==
    LET distance_to_light_at_center == FromInt(center.distance_to_light)
        distance_to_light_at_neighbor == FromInt(neighbor.distance_to_light)
        cosine_light_source_at_center ==
            FAbs(FDiv(FromInt(-center.along_normal), distance_to_light_at_center))
        cosine_light_source_at_neighbor ==
            FAbs(FDiv(FromInt(-neighbor.along_normal), distance_to_light_at_neighbor))
        cosine_ratio == FDiv(cosine_light_source_at_center, cosine_light_source_at_neighbor)
        distance_squared_ratio ==
            FDiv(FMul(distance_to_light_at_neighbor, distance_to_light_at_neighbor),
                 FMul(distance_to_light_at_center, distance_to_light_at_center))
        jac == FMul(cosine_ratio, distance_squared_ratio)
    IN  IF \/ FGt(jac, FromInt(jacobian_clamp))
           \/ FLt(jac, FDiv(FromInt(1), FromInt(10)))
           \/ FIsNaN(jac)
        THEN FromInt(-1)
        ELSE jac

\* get_jacobian_determinant_reconnection_shift(render_data, neighbor_reservoir,
\*     center_pixel_shading_point, neighbor_shading_point)
\* The normalized to-light direction is (point_on_light_source - point) /
\* distance, so its dot product with the light normal is along_normal /
\* distance_to_light (0 / 0 = NaN at the light point itself).
get_jacobian_determinant_reconnection_shift(center, neighbor) ==
    LET distance_to_light_at_center == FromInt(center.distance_to_light)
        distance_to_light_at_neighbor == FromInt(neighbor.distance_to_light)
        cosine_light_source_at_center ==
            FAbs(FDiv(FromInt(-center.along_normal), distance_to_light_at_center))
        cosine_light_source_at_neighbor ==
            FAbs(FDiv(FromInt(-neighbor.along_normal), distance_to_light_at_neighbor))
        cosine_ratio == FDiv(cosine_light_source_at_center, cosine_light_source_at_neighbor)
        distance_squared_ratio ==
            FDiv(FMul(distance_to_light_at_neighbor, distance_to_light_at_neighbor),
                 FMul(distance_to_light_at_center, distance_to_light_at_center))
        jac == FMul(cosine_ratio, distance_squared_ratio)
    IN  IF \/ FGt(jac, FromInt(jacobian_clamp))
           \/ FLt(jac, FDiv(FromInt(1), FromInt(jacobian_clamp)))
           \/ FIsNaN(jac)
        THEN FromInt(-1)
        ELSE jac

\* the two shading points of a reconnection shift
InitJacobian ==
    /\ IdleHost
    /\ pc = "start"
    /\ ReSTIR_DI_BiasCorrectionUseVisiblity = FALSE
    /\ reservoir = [sample |-> [emissive_triangle_index |-> 0], M |-> 1, weight_sum |-> 1]
    /\ center_pixel_surface = [luminance |-> 1, occluded |-> FALSE, at_light |-> FALSE]
    /\ temporal_neighbor_surface = [luminance |-> 1, occluded |-> FALSE, at_light |-> FALSE]
    /\ initial_candidates_M = 0
    /\ temporal_neighbor_M = 0
    /\ current_neighbor = INITIAL_CANDIDATES_ID
    /\ selected_neighbor = INITIAL_CANDIDATES_ID
    /\ NoOutputs
    /\ IdleTargetFunction
    /\ IdleHeuristics
    /\ IdleCombine
    /\ IdlePass
    /\ center_pixel_shading_point \in ShadingPoints
    /\ neighbor_shading_point \in ShadingPoints
    /\ jacobian = Unset
    /\ jacobian_reverse = Unset

\* the shift of the neighbor's sample to the center pixel
ShiftNeighborToCenter ==
    /\ pc = "start"
    /\ pc' = "shifted"
    /\ jacobian' = get_jacobian_determinant_reconnection_shift(
                        center_pixel_shading_point, neighbor_shading_point)
    /\ UNCHANGED <<inputVars, outputVars, tfVars, heurVars, combVars, passVars,
                   center_pixel_shading_point, neighbor_shading_point,
                   jacobian_reverse,
                   hostVars>>

\* the same sample shifted the other way: the two points exchange roles
ShiftCenterToNeighbor ==
    /\ pc = "shifted"
    /\ pc' = "shifted_back"
    /\ jacobian_reverse' = get_jacobian_determinant_reconnection_shift(
                                neighbor_shading_point, center_pixel_shading_point)
    /\ UNCHANGED <<inputVars, outputVars, tfVars, heurVars, combVars, passVars,
                   center_pixel_shading_point, neighbor_shading_point, jacobian,
                   hostVars>>

NextJacobian ==
    \/ ShiftNeighborToCenter
    \/ ShiftCenterToNeighbor

\* a reconnection shift and the reverse shift
SpecJacobian == InitJacobian /\ [][NextJacobian]_vars

\* ------------------------------------------------- similarity heuristics
\* bug: a point exactly at the threshold passes
Mutant_plane_distance_heuristic(temporal_world_space_point, current_point, current_surface_normal, plane_distance_threshold) ==
    LET direction_between_points == VSub(temporal_world_space_point, current_point)
        distance_to_plane == FAbs(Dot(direction_between_points, current_surface_normal))
    IN  ~FGt(distance_to_plane, plane_distance_threshold)

\* plane_distance_heuristic
plane_distance_heuristic(temporal_world_space_point, current_point, current_surface_normal, plane_distance_threshold) ==
    LET direction_between_points == VSub(temporal_world_space_point, current_point)
        distance_to_plane == FAbs(Dot(direction_between_points, current_surface_normal))
    IN  FLt(distance_to_plane, plane_distance_threshold)

\* normal_similarity_heuristic
normal_similarity_heuristic(cur_normal, nb_normal, threshold) ==
    FGt(Dot(cur_normal, nb_normal), threshold)

\* roughness_similarity_heuristic
roughness_similarity_heuristic(neighbor_roughness, center_pixel_roughness, threshold) ==
    FLt(FAbs(FAdd(neighbor_roughness, FMul(FromInt(-1), center_pixel_roughness))),
        threshold)

\* bug: one passed test is enough
Mutant_check_similarity_heuristics(settings, tn_point, tn_normal, tn_roughness, cur_roughness, cur_point, cur_normal) ==
    LET plane == plane_distance_heuristic(tn_point, cur_point, cur_normal,
                                          settings.plane_distance_threshold)
        normal == normal_similarity_heuristic(cur_normal, tn_normal,
                                              settings.normal_similarity_angle_precomp)
        roughness == roughness_similarity_heuristic(tn_roughness, cur_roughness,
                                              settings.roughness_similarity_threshold)
    IN  [plane_distance_passed |-> plane,
         normal_similarity_passed |-> normal,
         roughness_similarity_passed |-> roughness,
         ret |-> plane \/ normal \/ roughness]

\* check_similarity_heuristics, with the values it reads from the g-buffer
\* and the settings: the three locals and the value returned
check_similarity_heuristics(settings, tn_point, tn_normal, tn_roughness, cur_roughness, cur_point, cur_normal) ==
    LET plane == plane_distance_heuristic(tn_point, cur_point, cur_normal,
                                          settings.plane_distance_threshold)
        normal == normal_similarity_heuristic(cur_normal, tn_normal,
                                              settings.normal_similarity_angle_precomp)
        roughness == roughness_similarity_heuristic(tn_roughness, cur_roughness,
                                              settings.roughness_similarity_threshold)
    IN  [plane_distance_passed |-> plane,
         normal_similarity_passed |-> normal,
         roughness_similarity_passed |-> roughness,
         ret |-> plane /\ normal /\ roughness]

\* the g-buffer entries of the two pixels, the current surface and the settings
InitHeuristics ==
    /\ IdleHost
    /\ pc = "start"
    /\ ReSTIR_DI_BiasCorrectionUseVisiblity = FALSE
    /\ reservoir = [sample |-> [emissive_triangle_index |-> 0], M |-> 1, weight_sum |-> 1]
    /\ center_pixel_surface = [luminance |-> 1, occluded |-> FALSE, at_light |-> FALSE]
    /\ temporal_neighbor_surface = [luminance |-> 1, occluded |-> FALSE, at_light |-> FALSE]
    /\ initial_candidates_M = 0
    /\ temporal_neighbor_M = 0
    /\ current_neighbor = INITIAL_CANDIDATES_ID
    /\ selected_neighbor = INITIAL_CANDIDATES_ID
    /\ NoOutputs
    /\ IdleTargetFunction
    /\ IdleJacobian
    /\ IdleCombine
    /\ IdlePass
    /\ restir_di_settings \in Settings
    /\ temporal_neighbor_point \in Points
    /\ neighbor_normal \in Normals
    /\ temporal_neighbor_roughness \in Roughnesses
    /\ current_material_roughness \in Roughnesses
    /\ current_shading_point = Vec(<<0, 0, 0>>, 1)
    /\ current_normal \in Normals
    /\ plane_distance_passed = FALSE
    /\ normal_similarity_passed = FALSE
    /\ roughness_similarity_passed = FALSE
    /\ similarity_passed = FALSE

CheckSimilarityHeuristics ==
    /\ pc = "start"
    /\ pc' = "checked"
    /\ LET r == check_similarity_heuristics(
                    restir_di_settings, temporal_neighbor_point, neighbor_normal,
                    temporal_neighbor_roughness, current_material_roughness,
                    current_shading_point, current_normal)
       IN  /\ plane_distance_passed' = r.plane_distance_passed
           /\ normal_similarity_passed' = r.normal_similarity_passed
           /\ roughness_similarity_passed' = r.roughness_similarity_passed
           /\ similarity_passed' = r.ret
    /\ UNCHANGED <<inputVars, outputVars, tfVars, jacVars, combVars, passVars,
                   restir_di_settings, temporal_neighbor_point, neighbor_normal,
                   temporal_neighbor_roughness, current_material_roughness,
                   current_shading_point, current_normal,
                   hostVars>>

NextHeuristics == CheckSimilarityHeuristics

\* one call of check_similarity_heuristics
SpecHeuristics == InitHeuristics /\ [][NextHeuristics]_vars

\* ------------------------------------------- weighted reservoir sampling
\* bug: the weight is added to weight_sum only when the candidate is retained
Mutant_combine_WeightSum(res, candidate_sample, candidate_resampling_weight, candidate_M, u) ==
    LET weight_sum_after_update == FAdd(res.weight_sum, candidate_resampling_weight)
        replaced == FLt(u, FDiv(candidate_resampling_weight, weight_sum_after_update))
    IN  [sample |-> IF replaced THEN candidate_sample ELSE res.sample,
         M |-> res.M + candidate_M,
         weight_sum |-> IF replaced THEN weight_sum_after_update ELSE res.weight_sum]

\* bug: the candidate is retained when u <= probability, so that a draw of 0
\* retains a candidate of probability 0
Mutant_combine_Draw(res, candidate_sample, candidate_resampling_weight, candidate_M, u) ==
    LET weight_sum_after_update == FAdd(res.weight_sum, candidate_resampling_weight)
        replaced == ~FGt(u, FDiv(candidate_resampling_weight, weight_sum_after_update))
    IN  [sample |-> IF replaced THEN candidate_sample ELSE res.sample,
         M |-> res.M + candidate_M,
         weight_sum |-> weight_sum_after_update]

\* combine(reservoir, candidate_sample, candidate_resampling_weight,
\* candidate_M) with its uniform random number u in [0, 1): the candidate
\* replaces the sample with probability candidate_resampling_weight /
\* weight_sum_after_update, that is when u is below that quotient (0 / 0 is
\* NaN, which no u is below)
combine(res, candidate_sample, candidate_resampling_weight, candidate_M, u) ==
    LET weight_sum_after_update == FAdd(res.weight_sum, candidate_resampling_weight)
        replaced == FLt(u, FDiv(candidate_resampling_weight, weight_sum_after_update))
    IN  [sample |-> IF replaced THEN candidate_sample ELSE res.sample,
         M |-> res.M + candidate_M,
         weight_sum |-> weight_sum_after_update]

\* the uniform random numbers drawn
Draws == {Float(k, DrawSteps) : k \in 0..(DrawSteps - 1)}

\* the k-th candidate: no sample or a sample on emissive triangle k, a
\* resampling weight and a confidence.  The resampling weight has the target
\* function of the sample as a factor, which is 0 for no sample.
Candidates(k) ==
    {c \in [sample : [emissive_triangle_index : {-1, k}],
            weight : 0..MaxF, M : 0..MaxM] :
        c.sample.emissive_triangle_index = -1 => c.weight = 0}

\* a fresh reservoir
InitCombine ==
    /\ pc = "start"
    /\ ReSTIR_DI_BiasCorrectionUseVisiblity = FALSE
    /\ reservoir = [sample |-> [emissive_triangle_index |-> 0], M |-> 1, weight_sum |-> 1]
    /\ center_pixel_surface = [luminance |-> 1, occluded |-> FALSE, at_light |-> FALSE]
    /\ temporal_neighbor_surface = [luminance |-> 1, occluded |-> FALSE, at_light |-> FALSE]
    /\ initial_candidates_M = 0
    /\ temporal_neighbor_M = 0
    /\ current_neighbor = INITIAL_CANDIDATES_ID
    /\ selected_neighbor = INITIAL_CANDIDATES_ID
    /\ NoOutputs
    /\ IdleUtils

\* one more candidate is combined
Combine ==
    /\ pc \in {"start", "combined"}
    /\ Len(combined) < MaxCandidates
    /\ pc' = "combined"
    /\ \E c \in Candidates(Len(combined) + 1), u \in Draws :
           /\ working_reservoir' =
                  combine(working_reservoir, c.sample, FromInt(c.weight), c.M, u)
           /\ combined' = Append(combined, c)
    /\ UNCHANGED <<inputVars, outputVars, tfVars, jacVars, heurVars, passVars,
                   hostVars>>

NextCombine == Combine

\* any sequence of candidates combined into a fresh reservoir
SpecCombine == InitCombine /\ [][NextCombine]_vars

\* ----------------------------------------- temporal pass of a pixel
\* The pixel task: heuristics gate, initial candidates combined, temporal
\* neighbor combined unless it is absent or rejected, normalization.  The
\* resampling weights and the normalization are those of
\* get_resampling_MIS_weight and get_normalization in the mode of the render.

\* target functions of the samples at the two surfaces, in units
PassLuminances == {0, 2, 6}

\* the surfaces of the pass: the light samples are visible from both, so the
\* target function is the same with and without visibility
PassSurfaces == [luminance : PassLuminances, occluded : {FALSE}, at_light : {FALSE}]

\* resampling weight of the initial candidates from initial sampling
InitialWeights == {FromInt(1), Float(5, 2)}

\* jacobians of the temporal neighbor: rejected, 1 and 5
PassJacobians == {FromInt(-1), FromInt(1), FromInt(5)}

\* get_resampling_MIS_weight of the mode
get_resampling_MIS_weight(mode, rbr, tnr, tns, cps, icM, tnM, cn) ==
    CASE mode = "RESTIR_DI_BIAS_CORRECTION_1_OVER_M" ->
             MISWeight_1_OVER_M(rbr, tns, cps, icM, tnM, cn)
      [] mode = "RESTIR_DI_BIAS_CORRECTION_1_OVER_Z" ->
             MISWeight_1_OVER_Z(rbr, tns, cps, icM, tnM, cn)
      [] mode = "RESTIR_DI_BIAS_CORRECTION_MIS_LIKE" ->
             MISWeight_MIS_LIKE(rbr, tns, cps, icM, tnM, cn)
      [] mode = "RESTIR_DI_BIAS_CORRECTION_MIS_LIKE_CONFIDENCE_WEIGHTS" ->
             MISWeight_MIS_LIKE_CONFIDENCE_WEIGHTS(rbr, tnr, tns, cps, cn)
      [] mode = "RESTIR_DI_BIAS_CORRECTION_MIS_GBH" ->
             MISWeight_MIS_GBH(rbr, tns, cps, icM, tnM, cn)
      [] mode = "RESTIR_DI_BIAS_CORRECTION_MIS_GBH_CONFIDENCE_WEIGHTS" ->
             MISWeight_MIS_GBH_CONFIDENCE_WEIGHTS(rbr, tns, cps, icM, tnM, cn)

\* get_normalization of the mode
get_normalization(mode, res, icM, tnM, cps, tns, sn) ==
    CASE mode = "RESTIR_DI_BIAS_CORRECTION_1_OVER_M" ->
             Normalization_1_OVER_M(res, icM, tnM, cps, tns, sn)
      [] mode = "RESTIR_DI_BIAS_CORRECTION_1_OVER_Z" ->
             Normalization_1_OVER_Z(res, icM, tnM, cps, tns, sn)
      [] mode = "RESTIR_DI_BIAS_CORRECTION_MIS_LIKE" ->
             Normalization_MIS_LIKE(res, icM, tnM, cps, tns, sn)
      [] mode = "RESTIR_DI_BIAS_CORRECTION_MIS_LIKE_CONFIDENCE_WEIGHTS" ->
             Normalization_MIS_LIKE_CONFIDENCE_WEIGHTS(res, icM, tnM, cps, tns, sn)
      [] mode = "RESTIR_DI_BIAS_CORRECTION_MIS_GBH" ->
             Normalization_MIS_GBH(res, icM, tnM, cps, tns, sn)
      [] mode = "RESTIR_DI_BIAS_CORRECTION_MIS_GBH_CONFIDENCE_WEIGHTS" ->
             Normalization_MIS_GBH_CONFIDENCE_WEIGHTS(res, icM, tnM, cps, tns, sn)

\* the working reservoir as get_normalization reads it: its sample, and its
\* weight_sum for the test weight_sum <= 0.0f only
NormalizedReservoir(res) ==
    [sample |-> res.sample, M |-> res.M,
     weight_sum |-> IF FLeZero(res.weight_sum) THEN 0 ELSE 1]

\* A reservoir from initial sampling that retains a sample has counted at
\* least that candidate, and the sample has a positive target function at
\* the pixel's own surface (a candidate of target function 0 is never
\* retained).
InitTemporalPass ==
    /\ IdleThreads
    /\ IdleBuffers
    /\ IdleRendererExceptClear
    /\ temporal_buffer_clear_requested \in BOOLEAN
    /\ pc = "start"
    /\ bias_correction_mode \in BiasCorrectionModes
    /\ visited = <<"Start">>
    /\ reservoirs_written = 0
    /\ ReSTIR_DI_BiasCorrectionUseVisiblity \in BOOLEAN
    /\ initial_candidates_reservoir \in
           [sample : [emissive_triangle_index : {-1, 1}], M : 0..MaxM,
            weight : InitialWeights]
    /\ temporal_neighbor_reservoir \in
           [sample : [emissive_triangle_index : {-1, 2}], M : 0..MaxM]
    /\ reservoir = initial_candidates_reservoir
    /\ center_pixel_surface \in PassSurfaces
    /\ temporal_neighbor_surface \in PassSurfaces
    /\ initial_candidates_reservoir.sample # NoSample
           => /\ initial_candidates_reservoir.M >= 1
              /\ center_pixel_surface.luminance > 0
    /\ initial_candidates_M = initial_candidates_reservoir.M
    /\ temporal_neighbor_M = temporal_neighbor_reservoir.M
    /\ current_neighbor = INITIAL_CANDIDATES_ID
    /\ selected_neighbor = INITIAL_CANDIDATES_ID
    /\ NoOutputs
    /\ IdleTargetFunction
    /\ IdleHeuristics
    /\ IdleCombine
    /\ center_pixel_shading_point = NoShadingPoint
    /\ neighbor_shading_point = NoShadingPoint
    /\ jacobian \in PassJacobians
    /\ jacobian_reverse = Unset

\* M of the temporal neighbor after the gate: 0 if the temporal buffers are
\* being cleared or the heuristics failed
Mutant_gated_temporal_neighbor_M_ClearIgnored(tnM, passed, clear_requested) ==
    IF passed THEN tnM ELSE 0

gated_temporal_neighbor_M(tnM, passed, clear_requested) ==
    IF passed /\ ~clear_requested THEN tnM ELSE 0

\* step 1: the similarity heuristics pass or fail; a failed temporal neighbor
\* gets M = 0, and so does every temporal neighbor while the temporal buffers
\* are being cleared
HeuristicsGate ==
    /\ pc = "start"
    /\ pc' = "HeuristicsGate"
    /\ visited' = Append(visited, "HeuristicsGate")
    /\ \E passed \in BOOLEAN :
           /\ similarity_passed' = passed
           /\ temporal_neighbor_M' =
                  gated_temporal_neighbor_M(temporal_neighbor_M, passed,
                                            temporal_buffer_clear_requested)
    /\ UNCHANGED <<ReSTIR_DI_BiasCorrectionUseVisiblity, reservoir,
                   center_pixel_surface, temporal_neighbor_surface,
                   initial_candidates_M, current_neighbor, selected_neighbor,
                   outputVars, tfVars, jacVars, combVars,
                   initial_candidates_reservoir, temporal_neighbor_reservoir,
                   bias_correction_mode, reservoirs_written,
                   restir_di_settings, temporal_neighbor_point, neighbor_normal,
                   temporal_neighbor_roughness, current_material_roughness,
                   current_shading_point, current_normal, plane_distance_passed,
                   normal_similarity_passed, roughness_similarity_passed,
                   hostVars>>

\* what a combination step leaves alone
PassStepUnchanged ==
    UNCHANGED <<ReSTIR_DI_BiasCorrectionUseVisiblity, center_pixel_surface,
                temporal_neighbor_surface, initial_candidates_M,
                out_normalization_nume, out_normalization_denom,
                tfVars, jacVars, heurVars,
                initial_candidates_reservoir, temporal_neighbor_reservoir,
                bias_correction_mode, reservoirs_written,
                hostVars>>

\* the temporal neighbor's reservoir with the M the gate left it
GatedTemporalNeighbor ==
    [sample |-> temporal_neighbor_reservoir.sample, M |-> temporal_neighbor_M,
     weight_sum |-> 0]

\* step 2: the initial candidates are combined into a fresh reservoir with
\* the weight target_function(sample, center) x initial weight x m_i
CombineInitialCandidates ==
    /\ pc = "HeuristicsGate"
    /\ pc' = "CombineInitialCandidates"
    /\ visited' = Append(visited, "CombineInitialCandidates")
    /\ \E r \in {get_resampling_MIS_weight(
                    bias_correction_mode, initial_candidates_reservoir,
                    GatedTemporalNeighbor, temporal_neighbor_surface,
                    center_pixel_surface, initial_candidates_M,
                    temporal_neighbor_M, INITIAL_CANDIDATES_ID)} :
       \E target_function_at_center \in
              {ReSTIR_DI_evaluate_target_function(
                   ReSTIR_DI_BiasCorrectionUseVisiblity,
                   initial_candidates_reservoir.sample, center_pixel_surface).value} :
       \E weight \in {FMul(FMul(target_function_at_center,
                                initial_candidates_reservoir.weight), r.ret)} :
           /\ \E u \in Draws :
                  working_reservoir' =
                      combine(FreshReservoir, initial_candidates_reservoir.sample,
                              weight, initial_candidates_M, u)
           /\ combined' = <<[sample |-> initial_candidates_reservoir.sample,
                             weight |-> weight, M |-> initial_candidates_M]>>
           /\ mis_weight' = r.ret
           /\ tf_calls' = r.tf_calls
           /\ bsdf_evals' = r.bsdf_evals
           /\ shadow_rays' = r.shadow_rays
    /\ reservoir' = initial_candidates_reservoir
    /\ current_neighbor' = INITIAL_CANDIDATES_ID
    /\ selected_neighbor' = INITIAL_CANDIDATES_ID
    /\ temporal_neighbor_M' = temporal_neighbor_M
    /\ PassStepUnchanged

\* bug: the rejection sentinel of the jacobian is taken for a jacobian
Mutant_temporal_neighbor_rejected_SentinelAccepted(tnM, j) ==
    tnM = 0

\* the temporal neighbor is absent, failed the heuristics, or its jacobian
\* is the rejection sentinel -1
temporal_neighbor_rejected(tnM, j) ==
    tnM = 0 \/ j = FromInt(-1)

\* step 3: a temporal neighbor that passed the heuristics and whose jacobian
\* is accepted is combined with the weight
\* target_function(sample, center) x jacobian x m_i
CombineTemporalNeighbor ==
    /\ pc = "CombineInitialCandidates"
    /\ ~temporal_neighbor_rejected(temporal_neighbor_M, jacobian)
    /\ pc' = "CombineTemporalNeighbor"
    /\ visited' = Append(visited, "CombineTemporalNeighbor")
    /\ \E r \in {get_resampling_MIS_weight(
                    bias_correction_mode,
                    [temporal_neighbor_reservoir EXCEPT !.M = temporal_neighbor_M],
                    GatedTemporalNeighbor, temporal_neighbor_surface,
                    center_pixel_surface, initial_candidates_M,
                    temporal_neighbor_M, TEMPORAL_NEIGHBOR_ID)} :
       \E target_function_at_center \in
              {ReSTIR_DI_evaluate_target_function(
                   ReSTIR_DI_BiasCorrectionUseVisiblity,
                   temporal_neighbor_reservoir.sample, center_pixel_surface).value} :
       \E weight \in {FMul(FMul(target_function_at_center, jacobian), r.ret)} :
           /\ \E u \in Draws :
                  \E combined_reservoir \in
                         {combine(working_reservoir, temporal_neighbor_reservoir.sample,
                                  weight, temporal_neighbor_M, u)} :
                      /\ working_reservoir' = combined_reservoir
                      /\ selected_neighbor' =
                             IF combined_reservoir.sample # working_reservoir.sample
                             THEN TEMPORAL_NEIGHBOR_ID
                             ELSE selected_neighbor
           /\ combined' = Append(combined,
                                 [sample |-> temporal_neighbor_reservoir.sample,
                                  weight |-> weight, M |-> temporal_neighbor_M])
           /\ mis_weight' = r.ret
           /\ tf_calls' = r.tf_calls
           /\ bsdf_evals' = r.bsdf_evals
           /\ shadow_rays' = r.shadow_rays
    /\ reservoir' = temporal_neighbor_reservoir
    /\ current_neighbor' = TEMPORAL_NEIGHBOR_ID
    /\ temporal_neighbor_M' = temporal_neighbor_M
    /\ PassStepUnchanged

\* step 3, otherwise: the temporal neighbor is skipped, which is M = 0
SkipTemporalNeighbor ==
    /\ pc = "CombineInitialCandidates"
    /\ temporal_neighbor_rejected(temporal_neighbor_M, jacobian)
    /\ pc' = "TemporalNeighborSkipped"
    /\ temporal_neighbor_M' = 0
    /\ UNCHANGED <<reservoir, current_neighbor, selected_neighbor, mis_weight,
                   tf_calls, bsdf_evals, shadow_rays, combVars, visited>>
    /\ PassStepUnchanged

\* step 4: the normalization of the mode, and the reservoir is written
Finalize ==
    /\ pc \in {"CombineTemporalNeighbor", "TemporalNeighborSkipped"}
    /\ pc' = "Finalize"
    /\ visited' = Append(visited, "Finalize")
    /\ reservoirs_written' = reservoirs_written + 1
    /\ \E r \in {get_normalization(bias_correction_mode,
                                    NormalizedReservoir(working_reservoir),
                                    initial_candidates_M, temporal_neighbor_M,
                                    center_pixel_surface, temporal_neighbor_surface,
                                    selected_neighbor)} :
           /\ out_normalization_nume' = r.ret[1]
           /\ out_normalization_denom' = r.ret[2]
           /\ tf_calls' = r.tf_calls
           /\ bsdf_evals' = r.bsdf_evals
           /\ shadow_rays' = r.shadow_rays
    /\ UNCHANGED <<inputVars, mis_weight, tfVars, jacVars, heurVars, combVars,
                   initial_candidates_reservoir, temporal_neighbor_reservoir,
                   bias_correction_mode, hostVars>>

NextTemporalPass ==
    \/ HeuristicsGate
    \/ CombineInitialCandidates
    \/ CombineTemporalNeighbor
    \/ SkipTemporalNeighbor
    \/ Finalize

\* the temporal pass of one pixel
SpecTemporalPass == InitTemporalPass /\ [][NextTemporalPass]_vars

\* the pixel tasks of a frame whose initial candidates have M = 1 and the
\* contribution weight 1 at a center surface of target function 2, the
\* temporal neighbor's surface having the target function 0 or 6
InitPixelTask ==
    /\ InitTemporalPass
    /\ ~ReSTIR_DI_BiasCorrectionUseVisiblity
    /\ initial_candidates_reservoir.M = 1
    /\ initial_candidates_reservoir.weight = FromInt(1)
    /\ center_pixel_surface.luminance = 2
    /\ temporal_neighbor_surface.luminance \in {0, 6}

\* a launched pixel task runs to completion
SpecTemporalPassFair ==
    InitPixelTask /\ [][NextTemporalPass]_vars /\ WF_vars(NextTemporalPass)

\* --------------------------------------------------------- GPURenderer
\* update(), render() and reset() as the application calls them, one after
\* the other on the host thread.  render() is taken one launch at a time.

\* largest samples_per_frame
MaxSamplesPerFrame == 2
\* calls of update(), render(), reset() and clear requests in one run
MaxHostCalls == 5

\* pc between two calls: no call yet, or the call that returned last
HostIdle == {"start", "update", "render", "reset", "request_temporal_buffer_clear"}

\* what the utilities of the pixel task hold while the host runs
IdlePixel ==
    /\ ReSTIR_DI_BiasCorrectionUseVisiblity = FALSE
    /\ reservoir = [sample |-> NoSample, M |-> 0, weight_sum |-> 0]
    /\ center_pixel_surface = NoSurface
    /\ temporal_neighbor_surface = NoSurface
    /\ initial_candidates_M = 0
    /\ temporal_neighbor_M = 0
    /\ current_neighbor = INITIAL_CANDIDATES_ID
    /\ selected_neighbor = INITIAL_CANDIDATES_ID
    /\ NoOutputs
    /\ IdleTargetFunction
    /\ IdleJacobian
    /\ IdleHeuristics
    /\ IdleCombine
    /\ IdlePass

InitRenderer ==
    /\ pc = "start"
    /\ IdlePixel
    /\ IdleBuffers
    /\ IdleThreads
    /\ sample_number = 0
    /\ samples_per_frame \in 1..MaxSamplesPerFrame
    /\ accumulate \in BOOLEAN
    /\ auto_sample_per_frame \in BOOLEAN
    /\ DIRECT_LIGHT_SAMPLING_STRATEGY \in LightSamplingStrategies
    /\ temporal_buffer_clear_requested = FALSE
    /\ need_to_reset = TRUE
    /\ do_update_status_buffers = FALSE
    /\ freeze_random \in BOOLEAN
    /\ m_rng = ToBits(RendererSeed)
    /\ random_seed = ToBits(RendererSeed)
    /\ sample_index = 0
    /\ launched = <<>>
    /\ samples_since_reset = 0
    /\ samples_since_zeroed = 0
    /\ restir_di_launches_since_request = 0
    /\ restir_di_launch_saw_clear = FALSE
    /\ temporal_buffer_clear_requests = 0
    /\ host_calls = 0

\* the application asks for the temporal buffers to be cleared
request_temporal_buffer_clear ==
    /\ pc \in HostIdle
    /\ host_calls < MaxHostCalls
    /\ host_calls' = host_calls + 1
    /\ pc' = "request_temporal_buffer_clear"
    /\ temporal_buffer_clear_requested' = TRUE
    /\ restir_di_launches_since_request' = 0
    /\ temporal_buffer_clear_requests' = temporal_buffer_clear_requests + 1
    /\ UNCHANGED <<exceptRenderer, sample_number, samples_per_frame, accumulate,
                   auto_sample_per_frame, DIRECT_LIGHT_SAMPLING_STRATEGY,
                   need_to_reset, do_update_status_buffers, freeze_random, m_rng,
                   random_seed, sample_index, launched, samples_since_reset,
                   samples_since_zeroed, restir_di_launch_saw_clear>>

\* sample_number after update(): 0 unless the renderer accumulates
Mutant_update_sample_number_AlwaysZero(n, accumulating) == 0

update_sample_number(n, accumulating) == IF ~accumulating THEN 0 ELSE n

\* GPURenderer::update(), update_render_data() included
update ==
    /\ pc \in HostIdle
    /\ host_calls < MaxHostCalls
    /\ host_calls' = host_calls + 1
    /\ pc' = "update"
    /\ m_rng' = xorshift32(m_rng)
    /\ random_seed' = m_rng'
    /\ do_update_status_buffers' = FALSE
    /\ sample_number' = update_sample_number(sample_number, accumulate)
    /\ samples_since_zeroed' = IF ~accumulate THEN 0 ELSE samples_since_zeroed
    /\ UNCHANGED <<exceptRenderer, samples_per_frame, accumulate, auto_sample_per_frame,
                   DIRECT_LIGHT_SAMPLING_STRATEGY, temporal_buffer_clear_requested,
                   need_to_reset, freeze_random, sample_index, launched,
                   samples_since_reset, restir_di_launches_since_request,
                   restir_di_launch_saw_clear, temporal_buffer_clear_requests>>

\* GPURenderer::reset()
reset ==
    /\ pc \in HostIdle
    /\ host_calls < MaxHostCalls
    /\ host_calls' = host_calls + 1
    /\ pc' = "reset"
    /\ m_rng' = IF accumulate THEN ToBits(RendererSeed) ELSE m_rng
    /\ samples_per_frame' =
           IF accumulate /\ auto_sample_per_frame THEN 1 ELSE samples_per_frame
    /\ sample_number' = 0
    /\ need_to_reset' = TRUE
    /\ samples_since_reset' = 0
    /\ samples_since_zeroed' = 0
    /\ UNCHANGED <<exceptRenderer, accumulate, auto_sample_per_frame,
                   DIRECT_LIGHT_SAMPLING_STRATEGY, temporal_buffer_clear_requested,
                   do_update_status_buffers, freeze_random, random_seed,
                   sample_index, launched, restir_di_launches_since_request,
                   restir_di_launch_saw_clear, temporal_buffer_clear_requests>>

\* what the steps of render() leave alone
RenderStepUnchanged ==
    UNCHANGED <<exceptRenderer, samples_per_frame, accumulate, auto_sample_per_frame,
                DIRECT_LIGHT_SAMPLING_STRATEGY, freeze_random,
                temporal_buffer_clear_requests>>

\* GPURenderer::render() up to the loop: int i = 1
render_begin ==
    /\ pc \in HostIdle
    /\ host_calls < MaxHostCalls
    /\ host_calls' = host_calls + 1
    /\ pc' = "render_loop"
    /\ sample_index' = 1
    /\ launched' = <<>>
    /\ UNCHANGED <<sample_number, temporal_buffer_clear_requested, need_to_reset,
                   do_update_status_buffers, m_rng, random_seed,
                   samples_since_reset, samples_since_zeroed,
                   restir_di_launches_since_request, restir_di_launch_saw_clear>>
    /\ RenderStepUnchanged

\* i <= samples_per_frame: the head of the iteration and launch_camera_rays()
launch_camera_rays ==
    /\ pc = "render_loop"
    /\ sample_index <= samples_per_frame
    /\ pc' = "launch_camera_rays"
    /\ do_update_status_buffers' =
           IF sample_index = samples_per_frame THEN TRUE ELSE do_update_status_buffers
    /\ m_rng' = xorshift32(m_rng)
    /\ random_seed' = m_rng'
    /\ launched' = Append(launched, "launch_camera_rays")
    /\ UNCHANGED <<sample_number, temporal_buffer_clear_requested, need_to_reset,
                   sample_index, samples_since_reset, samples_since_zeroed,
                   restir_di_launches_since_request, restir_di_launch_saw_clear,
                   host_calls>>
    /\ RenderStepUnchanged

\* launch_ReSTIR_DI(): the pass is launched if the strategy is ReSTIR DI
launch_ReSTIR_DI ==
    /\ pc = "launch_camera_rays"
    /\ pc' = "launch_ReSTIR_DI"
    /\ launched' = Append(launched, "launch_ReSTIR_DI")
    /\ IF DIRECT_LIGHT_SAMPLING_STRATEGY = "LSS_RESTIR_DI"
       THEN /\ restir_di_launch_saw_clear' = temporal_buffer_clear_requested
            /\ restir_di_launches_since_request' = restir_di_launches_since_request + 1
       ELSE UNCHANGED <<restir_di_launch_saw_clear, restir_di_launches_since_request>>
    /\ UNCHANGED <<sample_number, temporal_buffer_clear_requested, need_to_reset,
                   do_update_status_buffers, m_rng, random_seed, sample_index,
                   samples_since_reset, samples_since_zeroed, host_calls>>
    /\ RenderStepUnchanged

\* launch_path_tracing()
launch_path_tracing ==
    /\ pc = "launch_ReSTIR_DI"
    /\ pc' = "launch_path_tracing"
    /\ m_rng' = xorshift32(m_rng)
    /\ random_seed' = m_rng'
    /\ launched' = Append(launched, "launch_path_tracing")
    /\ UNCHANGED <<sample_number, temporal_buffer_clear_requested, need_to_reset,
                   do_update_status_buffers, sample_index, samples_since_reset,
                   samples_since_zeroed, restir_di_launches_since_request,
                   restir_di_launch_saw_clear, host_calls>>
    /\ RenderStepUnchanged

\* sample_number after the three launches of an iteration
Mutant_next_sample_number_Unchanged(n) == n

next_sample_number(n) == n + 1

\* the flag once the sample has been rendered
Mutant_clear_flag_after_sample_Kept(requested) == requested

clear_flag_after_sample(requested) == FALSE

\* the rest of the iteration: the counters, the flags, i++
render_sample_end ==
    /\ pc = "launch_path_tracing"
    /\ pc' = "render_loop"
    /\ sample_number' = next_sample_number(sample_number)
    /\ need_to_reset' = FALSE
    /\ temporal_buffer_clear_requested' =
           clear_flag_after_sample(temporal_buffer_clear_requested)
    /\ sample_index' = sample_index + 1
    /\ samples_since_reset' = samples_since_reset + 1
    /\ samples_since_zeroed' = samples_since_zeroed + 1
    /\ launched' = <<>>
    /\ UNCHANGED <<do_update_status_buffers, m_rng, random_seed,
                   restir_di_launches_since_request, restir_di_launch_saw_clear,
                   host_calls>>
    /\ RenderStepUnchanged

\* i > samples_per_frame: render() returns
render_return ==
    /\ pc = "render_loop"
    /\ sample_index > samples_per_frame
    /\ pc' = "render"
    /\ UNCHANGED <<rendererVars>>
    /\ UNCHANGED <<exceptRenderer>>

NextRenderer ==
    \/ request_temporal_buffer_clear
    \/ update
    \/ reset
    \/ render_begin
    \/ launch_camera_rays
    \/ launch_ReSTIR_DI
    \/ launch_path_tracing
    \/ render_sample_end
    \/ render_return

\* the renderer under any sequence of calls
SpecRenderer == InitRenderer /\ [][NextRenderer]_vars

\* -------------------------------------------------- load_scene_texture
\* nb_threads threads run load_scene_texture on one parsed scene, thread t
\* with thread_index = t.  One step is one iteration of the while loop.

\* largest number of threads
MaxThreads == 3
\* largest number of textures of the scene
MaxTextures == 4

Threads == 0..(nb_threads - 1)

TextureIndices == 0..(textures_size - 1)

InitLoadTextures ==
    /\ pc = "start"
    /\ IdlePixel
    /\ IdleBuffers
    /\ IdleRenderer
    /\ nb_threads \in 1..MaxThreads
    /\ textures_size \in 0..MaxTextures
    /\ constant_emissive \in SUBSET TextureIndices
    /\ thread_index = [t \in Threads |-> t]
    /\ thread_returned = {}
    /\ processed_by = [index \in TextureIndices |-> <<>>]
    /\ textures = [index \in TextureIndices |-> <<>>]
    /\ textures_dims = [index \in TextureIndices |-> <<>>]

\* thread_index += nb_threads
Mutant_next_thread_index_PlusOne(index, n) == index + 1

next_thread_index(index, n) == index + n

\* one iteration of the while loop of thread t: the texture at thread_index
\* is read and, unless it is a constant emissive texture, stored
load_scene_texture_iteration(t) ==
    /\ pc \in {"start", "load_scene_texture"}
    /\ pc' = "load_scene_texture"
    /\ t \notin thread_returned
    /\ thread_index[t] < textures_size
    /\ processed_by' = [processed_by EXCEPT ![thread_index[t]] = Append(@, t)]
    /\ IF thread_index[t] \in constant_emissive
       THEN UNCHANGED <<textures, textures_dims>>
       ELSE /\ textures_dims' = [textures_dims EXCEPT ![thread_index[t]] = Append(@, t)]
            /\ textures' = [textures EXCEPT ![thread_index[t]] = Append(@, t)]
    /\ thread_index' = [thread_index EXCEPT ![t] = next_thread_index(@, nb_threads)]
    /\ UNCHANGED <<nb_threads, textures_size, constant_emissive, thread_returned,
                   exceptThreads>>

\* the loop condition fails: the call of thread t returns
load_scene_texture_return(t) ==
    /\ pc \in {"start", "load_scene_texture"}
    /\ pc' = "load_scene_texture"
    /\ t \notin thread_returned
    /\ ~(thread_index[t] < textures_size)
    /\ thread_returned' = thread_returned \cup {t}
    /\ UNCHANGED <<nb_threads, textures_size, constant_emissive, thread_index,
                   processed_by, textures, textures_dims, exceptThreads>>

\* what thread t can do
load_scene_texture(t) ==
    load_scene_texture_iteration(t) \/ load_scene_texture_return(t)

NextLoadTextures ==
    \/ \E t \in Threads : load_scene_texture_iteration(t)
    \/ \E t \in Threads : load_scene_texture_return(t)

\* the threads under any interleaving
SpecLoadTextures == InitLoadTextures /\ [][NextLoadTextures]_vars

\* every started thread keeps being scheduled
FairLoadTextures ==
    \A t \in 0..(MaxThreads - 1) : WF_vars(t \in Threads /\ load_scene_texture(t))

SpecLoadTexturesFair == SpecLoadTextures /\ FairLoadTextures

\* ----------------------------------------------------------------- claims
\* f(s @ surface): the target function of the call's sample at a surface
TargetAt(surface) ==
    ReSTIR_DI_evaluate_target_function(
        ReSTIR_DI_BiasCorrectionUseVisiblity, reservoir.sample, surface).value

\* the temporal term as the functions take it: 0 without a temporal neighbor
TemporalTerm ==
    IF temporal_neighbor_M > 0 THEN TargetAt(temporal_neighbor_surface) ELSE FromInt(0)

\* w is the finite float num / den, stated by multiplying back
IsQuotient(w, num, den) == w.d # 0 /\ den.d # 0 /\ FMul(w, den) = num

NormalizationModes ==
    {"Normalization_1_OVER_M", "Normalization_1_OVER_Z", "Normalization_MIS_LIKE",
     "Normalization_MIS_LIKE_CONFIDENCE_WEIGHTS", "Normalization_MIS_GBH",
     "Normalization_MIS_GBH_CONFIDENCE_WEIGHTS"}

\* C1: in MIS-GBH mode, with temporal_neighbor_reservoir_M != 0 and
\* f(s @ temporal) + f(s @ center) != 0, get_resampling_MIS_weight returns
\* f(s @ temporal) / (f(s @ temporal) + f(s @ center)) for the temporal
\* neighbor and f(s @ center) / (the same sum) for the initial candidates.
C1_MISGBHRatio ==
    LET ft == TargetAt(temporal_neighbor_surface)
        fc == TargetAt(center_pixel_surface)
    IN  (/\ pc = "MISWeight_MIS_GBH"
         /\ temporal_neighbor_M # 0
         /\ ~FIsZero(FAdd(ft, fc)))
        => IsQuotient(mis_weight,
                      IF current_neighbor = TEMPORAL_NEIGHBOR_ID THEN ft ELSE fc,
                      FAdd(ft, fc))

\* C1 witness: the temporal neighbor got the weight 1 / (1 + 2)
C1_Witness ==
    /\ pc = "MISWeight_MIS_GBH"
    /\ temporal_neighbor_M # 0
    /\ current_neighbor = TEMPORAL_NEIGHBOR_ID
    /\ TargetAt(temporal_neighbor_surface) = FromInt(1)
    /\ TargetAt(center_pixel_surface) = FromInt(2)
    /\ mis_weight = [n |-> 1, d |-> 3]

\* C2 as stated: in MIS-GBH mode get_resampling_MIS_weight returns 0 whenever
\* the neighbor in the numerator has M = 0 (the temporal M for the temporal
\* neighbor, the initial candidates' M for the initial candidates) and
\* whenever the denominator is 0.
C2_Original ==
    LET ft == TargetAt(temporal_neighbor_surface)
        fc == TargetAt(center_pixel_surface)
    IN  (/\ pc = "MISWeight_MIS_GBH"
         /\ \/ current_neighbor = TEMPORAL_NEIGHBOR_ID /\ temporal_neighbor_M = 0
            \/ current_neighbor = INITIAL_CANDIDATES_ID /\ initial_candidates_M = 0
            \/ FIsZero(FAdd(ft, fc)))
        => FIsZero(mis_weight)

\* C2 amended: in MIS-GBH mode get_resampling_MIS_weight returns 0 whenever
\* the current neighbor is the temporal neighbor and its M is 0, and whenever
\* the denominator (temporal term + center term) is 0; the initial
\* candidates' M is not consulted.  In MIS-GBH + confidence mode it returns 0
\* in both M = 0 cases and for a zero denominator.
C2_MISGBHZero ==
    LET fc == TargetAt(center_pixel_surface)
    IN  /\ (/\ pc = "MISWeight_MIS_GBH"
            /\ \/ current_neighbor = TEMPORAL_NEIGHBOR_ID /\ temporal_neighbor_M = 0
               \/ FIsZero(FAdd(TemporalTerm, fc)))
           => FIsZero(mis_weight)
        /\ (/\ pc = "MISWeight_MIS_GBH_CONFIDENCE_WEIGHTS"
            /\ \/ current_neighbor = TEMPORAL_NEIGHBOR_ID /\ temporal_neighbor_M = 0
               \/ current_neighbor = INITIAL_CANDIDATES_ID /\ initial_candidates_M = 0
               \/ FIsZero(FAdd(FMul(TemporalTerm, FromInt(temporal_neighbor_M)),
                               FMul(fc, FromInt(initial_candidates_M)))))
           => FIsZero(mis_weight)

\* C2 witness: no temporal neighbor (M = 0), although the sample has a
\* positive target function at the temporal surface; the weight is 0
C2_Witness ==
    /\ pc = "MISWeight_MIS_GBH"
    /\ current_neighbor = TEMPORAL_NEIGHBOR_ID
    /\ temporal_neighbor_M = 0
    /\ FGtZero(TargetAt(temporal_neighbor_surface))
    /\ FGtZero(TargetAt(center_pixel_surface))
    /\ FIsZero(mis_weight)

\* C3: in MIS-GBH + confidence mode get_resampling_MIS_weight returns
\* f(s @ current neighbor's surface) x (that neighbor's M) divided by
\* f(s @ temporal) x temporal M + f(s @ center) x initial-candidates M, for
\* every input whose denominator is non-zero.
C3_MISGBHConfidenceRatio ==
    LET ft == FMul(TargetAt(temporal_neighbor_surface), FromInt(temporal_neighbor_M))
        fc == FMul(TargetAt(center_pixel_surface), FromInt(initial_candidates_M))
    IN  (/\ pc = "MISWeight_MIS_GBH_CONFIDENCE_WEIGHTS"
         /\ ~FIsZero(FAdd(ft, fc)))
        => IsQuotient(mis_weight,
                      IF current_neighbor = TEMPORAL_NEIGHBOR_ID THEN ft ELSE fc,
                      FAdd(ft, fc))

\* C3 witness: the initial candidates got the weight 2 x 2 / (1 x 1 + 2 x 2)
C3_Witness ==
    /\ pc = "MISWeight_MIS_GBH_CONFIDENCE_WEIGHTS"
    /\ current_neighbor = INITIAL_CANDIDATES_ID
    /\ TargetAt(temporal_neighbor_surface) = FromInt(1)
    /\ temporal_neighbor_M = 1
    /\ TargetAt(center_pixel_surface) = FromInt(2)
    /\ initial_candidates_M = 2
    /\ mis_weight = [n |-> 4, d |-> 5]

\* C4: in the four non-GBH modes the resampling MIS weight is
\* reservoir_being_resampled.M (1/M, 1/Z, MIS-like + confidence) or 1
\* (MIS-like), whatever the surfaces, the other reservoir's M and
\* current_neighbor are, and no target function is evaluated for it.
C4_NonGBHWeight ==
    /\ pc \in {"MISWeight_1_OVER_M", "MISWeight_1_OVER_Z",
               "MISWeight_MIS_LIKE_CONFIDENCE_WEIGHTS"}
       => (mis_weight = FromInt(reservoir.M) /\ tf_calls = 0)
    /\ pc = "MISWeight_MIS_LIKE"
       => (mis_weight = FromInt(1) /\ tf_calls = 0)

\* C4 witness: MIS-like + confidence returned the M of the reservoir being
\* resampled, which differs from both M arguments
C4_Witness ==
    /\ pc = "MISWeight_MIS_LIKE_CONFIDENCE_WEIGHTS"
    /\ reservoir.M = 2
    /\ temporal_neighbor_M = 1
    /\ initial_candidates_M = 0
    /\ mis_weight = FromInt(2)

\* C5 as stated: in MIS-like + confidence mode, for weight_sum > 0,
\* get_normalization returns numerator = f(final sample @ surface of the
\* selected neighbor) x (that neighbor's M) and denominator =
\* f(final sample @ center) x initial_candidates_M
\* + f(final sample @ temporal) x temporal_neighbor_M.
C5_Original ==
    LET ft == TargetAt(temporal_neighbor_surface)
        fc == TargetAt(center_pixel_surface)
    IN  (pc = "Normalization_MIS_LIKE_CONFIDENCE_WEIGHTS" /\ reservoir.weight_sum > 0)
        => /\ out_normalization_nume =
                  (IF selected_neighbor = INITIAL_CANDIDATES_ID
                   THEN FMul(fc, FromInt(initial_candidates_M))
                   ELSE FMul(ft, FromInt(temporal_neighbor_M)))
           /\ out_normalization_denom =
                  FAdd(FMul(fc, FromInt(initial_candidates_M)),
                       FMul(ft, FromInt(temporal_neighbor_M)))

\* C5 amended: in MIS-like + confidence mode, for weight_sum > 0,
\* get_normalization returns numerator = f(final sample @ surface of the
\* selected neighbor), not scaled by M (the temporal term being 0 when
\* temporal_neighbor_M = 0), and denominator = f(final sample @ center) x
\* initial_candidates_M + f(final sample @ temporal) x temporal_neighbor_M:
\* only the denominator terms are scaled by M.
C5_MISLikeConfidenceNormalization ==
    LET fc == TargetAt(center_pixel_surface)
    IN  (pc = "Normalization_MIS_LIKE_CONFIDENCE_WEIGHTS" /\ reservoir.weight_sum > 0)
        => /\ out_normalization_nume =
                  (IF selected_neighbor = INITIAL_CANDIDATES_ID
                   THEN fc ELSE TemporalTerm)
           /\ out_normalization_denom =
                  FAdd(FMul(fc, FromInt(initial_candidates_M)),
                       FMul(TargetAt(temporal_neighbor_surface),
                            FromInt(temporal_neighbor_M)))

\* C5 witness: the initial candidates (M = 2) produced the sample, f = 1 at
\* the center; the numerator is 1, the denominator 1 x 2 + 2 x 1
C5_Witness ==
    /\ pc = "Normalization_MIS_LIKE_CONFIDENCE_WEIGHTS"
    /\ reservoir.weight_sum > 0
    /\ selected_neighbor = INITIAL_CANDIDATES_ID
    /\ initial_candidates_M = 2
    /\ temporal_neighbor_M = 1
    /\ TargetAt(center_pixel_surface) = FromInt(1)
    /\ TargetAt(temporal_neighbor_surface) = FromInt(2)
    /\ out_normalization_nume = FromInt(1)
    /\ out_normalization_denom = FromInt(4)

\* C6: in MIS-like mode, for weight_sum > 0, get_normalization returns
\* numerator = f(final sample @ surface of the neighbor selected_neighbor
\* names) (center for the initial candidates, temporal otherwise) and
\* denominator = f(final sample @ center) + f(final sample @ temporal), the
\* temporal term being 0 when temporal_neighbor_M = 0.
C6_MISLikeNormalization ==
    LET fc == TargetAt(center_pixel_surface)
    IN  (pc = "Normalization_MIS_LIKE" /\ reservoir.weight_sum > 0)
        => /\ out_normalization_nume =
                  (IF selected_neighbor = INITIAL_CANDIDATES_ID
                   THEN fc ELSE TemporalTerm)
           /\ out_normalization_denom = FAdd(fc, TemporalTerm)

\* C6 witness: the temporal neighbor produced the sample, f = 2 there and 1
\* at the center
C6_Witness ==
    /\ pc = "Normalization_MIS_LIKE"
    /\ reservoir.weight_sum > 0
    /\ selected_neighbor = TEMPORAL_NEIGHBOR_ID
    /\ temporal_neighbor_M > 0
    /\ out_normalization_nume = FromInt(2)
    /\ out_normalization_denom = FromInt(3)

\* C7: in 1/Z mode, for weight_sum > 0, get_normalization returns numerator
\* = 1 and denominator = the sum of M over exactly those neighbors (initial
\* candidates at the center surface, temporal neighbor at the temporal
\* surface) whose target function at the final sample is > 0.
C7_OneOverZNormalization ==
    (pc = "Normalization_1_OVER_Z" /\ reservoir.weight_sum > 0)
    => /\ out_normalization_nume = FromInt(1)
       /\ out_normalization_denom =
              FromInt((IF FGtZero(TargetAt(center_pixel_surface))
                       THEN initial_candidates_M ELSE 0)
                      + (IF FGtZero(TargetAt(temporal_neighbor_surface))
                         THEN temporal_neighbor_M ELSE 0))

\* C7 witness: the temporal neighbor (M = 1) could not have produced the
\* sample, the initial candidates (M = 2) could; the denominator is 2
C7_Witness ==
    /\ pc = "Normalization_1_OVER_Z"
    /\ reservoir.weight_sum > 0
    /\ initial_candidates_M = 2
    /\ temporal_neighbor_M = 1
    /\ FGtZero(TargetAt(center_pixel_surface))
    /\ FIsZero(TargetAt(temporal_neighbor_surface))
    /\ out_normalization_denom = FromInt(2)

\* C8: in 1/M mode, for weight_sum > 0, get_normalization returns numerator
\* = 1 and denominator = initial_candidates_M + temporal_neighbor_M, whatever
\* the retained sample, the surfaces and selected_neighbor are.
C8_OneOverMNormalization ==
    (pc = "Normalization_1_OVER_M" /\ reservoir.weight_sum > 0)
    => /\ out_normalization_nume = FromInt(1)
       /\ out_normalization_denom = FromInt(initial_candidates_M + temporal_neighbor_M)
       /\ tf_calls = 0

\* C8 witness: M = 1 and M = 2 give the denominator 3 for a sample whose
\* target function is 0 at both surfaces
C8_Witness ==
    /\ pc = "Normalization_1_OVER_M"
    /\ reservoir.weight_sum > 0
    /\ initial_candidates_M = 1
    /\ temporal_neighbor_M = 2
    /\ FIsZero(TargetAt(center_pixel_surface))
    /\ FIsZero(TargetAt(temporal_neighbor_surface))
    /\ out_normalization_denom = FromInt(3)

\* C9: in MIS-GBH and MIS-GBH + confidence modes get_normalization returns
\* numerator = 1 and denominator = 1 for every input, and evaluates no target
\* function.
C9_MISGBHNormalization ==
    pc \in {"Normalization_MIS_GBH", "Normalization_MIS_GBH_CONFIDENCE_WEIGHTS"}
    => /\ out_normalization_nume = FromInt(1)
       /\ out_normalization_denom = FromInt(1)
       /\ tf_calls = 0
       /\ bsdf_evals = 0
       /\ shadow_rays = 0

\* C9 witness: MIS-GBH normalization of a valid reservoir whose neighbors
\* have M = 1 and M = 2
C9_Witness ==
    /\ pc = "Normalization_MIS_GBH"
    /\ reservoir.weight_sum > 0
    /\ reservoir.sample.emissive_triangle_index # -1
    /\ initial_candidates_M = 1
    /\ temporal_neighbor_M = 2
    /\ FGtZero(TargetAt(center_pixel_surface))
    /\ out_normalization_nume = FromInt(1)
    /\ out_normalization_denom = FromInt(1)

\* C10: in each of the six modes, when the combined reservoir has
\* weight_sum <= 0 get_normalization returns numerator = 1 and denominator
\* = 1 without evaluating any target function or visibility query.
C10_InvalidReservoirNormalization ==
    (pc \in NormalizationModes /\ reservoir.weight_sum <= 0)
    => /\ out_normalization_nume = FromInt(1)
       /\ out_normalization_denom = FromInt(1)
       /\ tf_calls = 0
       /\ bsdf_evals = 0
       /\ shadow_rays = 0

\* C10 witness: 1/Z normalization of a reservoir with weight_sum = 0 whose
\* sample has a positive target function and whose neighbors have M = 2
C10_Witness ==
    /\ pc = "Normalization_1_OVER_Z"
    /\ reservoir.weight_sum = 0
    /\ initial_candidates_M = 2
    /\ temporal_neighbor_M = 2
    /\ FGtZero(TargetAt(center_pixel_surface))
    /\ FGtZero(TargetAt(temporal_neighbor_surface))
    /\ out_normalization_denom = FromInt(1)
    /\ tf_calls = 0

\* the unbiased contribution weight the shading stage derives from the
\* normalization: UCW = weight_sum x numerator / denominator
UCW(weight_sum, nume, denom) == FDiv(FMul(FromInt(weight_sum), nume), denom)

\* C11 as stated: for every mode and every reservoir with weight_sum > 0 the
\* denominator produced by get_normalization is non-zero, so that
\* UCW = weight_sum x numerator / denominator is neither NaN nor infinite.
\* Stated for the reservoirs a temporal pass hands over: a retained sample
\* whose unoccluded target function at the center is > 0 (it was combined
\* with a positive resampling weight) and initial candidates with M > 0.
C11_Original ==
    (/\ pc \in NormalizationModes
     /\ reservoir.weight_sum > 0
     /\ reservoir.sample.emissive_triangle_index # -1
     /\ center_pixel_surface.luminance > 0
     /\ initial_candidates_M > 0)
    => /\ ~FIsZero(out_normalization_denom)
       /\ UCW(reservoir.weight_sum, out_normalization_nume,
              out_normalization_denom).d # 0

\* C20 as stated: for a sample that is none both variants of the target
\* function return 0 without any BSDF evaluation, buffer read or shadow ray,
\* and for every sample and every surface the returned value is >= 0.
C20_Original ==
    pc \in {"TargetFunction_FALSE", "TargetFunction_TRUE"}
    => /\ (reservoir.sample.emissive_triangle_index = -1
           => /\ FIsZero(tf_value)
              /\ bsdf_evals = 0 /\ buffer_reads = 0 /\ shadow_rays = 0)
       /\ (FIsZero(tf_value) \/ FGtZero(tf_value))

\* |along_normal| x distance^3 of the other point: the jacobian of the shift
\* neighbor -> center is JacobianNume / JacobianDenom when both are non-zero
JacobianNume ==
    Abs(center_pixel_shading_point.along_normal)
        * neighbor_shading_point.distance_to_light
        * neighbor_shading_point.distance_to_light
        * neighbor_shading_point.distance_to_light

JacobianDenom ==
    Abs(neighbor_shading_point.along_normal)
        * center_pixel_shading_point.distance_to_light
        * center_pixel_shading_point.distance_to_light
        * center_pixel_shading_point.distance_to_light

\* J is a finite number within [1 / 20, 20]
JacobianWithinClamp ==
    /\ center_pixel_shading_point.distance_to_light # 0
    /\ neighbor_shading_point.distance_to_light # 0
    /\ neighbor_shading_point.along_normal # 0
    /\ JacobianNume <= 20 * JacobianDenom
    /\ 20 * JacobianNume >= JacobianDenom

\* C15: get_jacobian_determinant_reconnection_shift returns -1 exactly when
\* J = (cos at center / cos at neighbor) x (neighbor distance^2 / center
\* distance^2) is above 20, below 1 / 20 or not a finite number, and J
\* otherwise; so every return value is -1 or within [1 / 20, 20], never NaN
\* or infinite.
C15_JacobianClamp ==
    pc \in {"shifted", "shifted_back"}
    => /\ (JacobianWithinClamp
           => /\ jacobian.d # 0
              /\ jacobian.n * JacobianDenom = JacobianNume * jacobian.d)
       /\ (~JacobianWithinClamp => jacobian = FromInt(-1))
       /\ jacobian.d # 0
       /\ \/ jacobian = FromInt(-1)
          \/ /\ 20 * jacobian.n >= jacobian.d
             /\ jacobian.n <= 20 * jacobian.d

\* a shift rejected because the center point is the light point (J is NaN)
C15_Witness ==
    /\ pc = "shifted"
    /\ jacobian = FromInt(-1)
    /\ center_pixel_shading_point.distance_to_light = 0
    /\ neighbor_shading_point.along_normal # 0

\* C16: when neither direction is rejected, jacobian(A -> B) x
\* jacobian(B -> A) = 1, and the shift one way is rejected exactly when the
\* shift the other way is.
C16_JacobianSymmetry ==
    pc = "shifted_back"
    => /\ (jacobian = FromInt(-1)) <=> (jacobian_reverse = FromInt(-1))
       /\ (jacobian # FromInt(-1) /\ jacobian_reverse # FromInt(-1))
           => FMul(jacobian, jacobian_reverse) = FromInt(1)

\* an accepted pair with J # 1 and its inverse
C16_Witness ==
    /\ pc = "shifted_back"
    /\ jacobian = Float(2, 27)
    /\ jacobian_reverse = Float(27, 2)

\* the three measured quantities
PlaneDistance ==
    FAbs(Dot(VSub(temporal_neighbor_point, current_shading_point), current_normal))

NormalDot == Dot(current_normal, neighbor_normal)

RoughnessDifference ==
    FAbs(FAdd(temporal_neighbor_roughness,
              FMul(FromInt(-1), current_material_roughness)))

\* C17: check_similarity_heuristics returns true only if the plane-distance,
\* normal-similarity and roughness-similarity tests all pass; when one of
\* them fails it returns false whatever the other two say.
C17_AllThreeMustPass ==
    pc = "checked"
    => /\ similarity_passed
          <=> (/\ plane_distance_passed
               /\ normal_similarity_passed
               /\ roughness_similarity_passed)
       /\ (FLt(NormalDot, restir_di_settings.normal_similarity_angle_precomp)
           => ~similarity_passed)

\* the neighbor normal is rotated beyond the angle while the two other tests
\* pass: rejected
C17_Witness ==
    /\ pc = "checked"
    /\ FLt(NormalDot, restir_di_settings.normal_similarity_angle_precomp)
    /\ plane_distance_passed
    /\ roughness_similarity_passed
    /\ ~normal_similarity_passed
    /\ ~similarity_passed

\* C18 as stated: each test rejects iff its quantity is strictly beyond the
\* threshold (plane distance > threshold, dot of normals < threshold,
\* roughness difference > threshold), so a quantity equal to the threshold
\* passes.
C18_Original ==
    pc = "checked"
    => /\ ~plane_distance_passed
          <=> FGt(PlaneDistance, restir_di_settings.plane_distance_threshold)
       /\ ~normal_similarity_passed
          <=> FLt(NormalDot, restir_di_settings.normal_similarity_angle_precomp)
       /\ ~roughness_similarity_passed
          <=> FGt(RoughnessDifference, restir_di_settings.roughness_similarity_threshold)

\* C18 (amended): each test passes iff its quantity is strictly within the
\* threshold: plane distance < threshold, dot of normals > threshold,
\* roughness difference < threshold; a quantity equal to the threshold is
\* rejected.
C18_StrictlyWithin ==
    pc = "checked"
    => /\ plane_distance_passed
          <=> FLt(PlaneDistance, restir_di_settings.plane_distance_threshold)
       /\ normal_similarity_passed
          <=> FGt(NormalDot, restir_di_settings.normal_similarity_angle_precomp)
       /\ roughness_similarity_passed
          <=> FLt(RoughnessDifference, restir_di_settings.roughness_similarity_threshold)
       /\ (PlaneDistance = restir_di_settings.plane_distance_threshold
           => ~plane_distance_passed)
       /\ (NormalDot = restir_di_settings.normal_similarity_angle_precomp
           => ~normal_similarity_passed)
       /\ (RoughnessDifference = restir_di_settings.roughness_similarity_threshold
           => ~roughness_similarity_passed)

\* all three quantities exactly at their thresholds: all three rejected
C18_Witness ==
    /\ pc = "checked"
    /\ PlaneDistance = restir_di_settings.plane_distance_threshold
    /\ NormalDot = restir_di_settings.normal_similarity_angle_precomp
    /\ RoughnessDifference = restir_di_settings.roughness_similarity_threshold
    /\ ~plane_distance_passed
    /\ ~normal_similarity_passed
    /\ ~roughness_similarity_passed

\* the near-specular cutoff named in the comment of
\* roughness_similarity_heuristic: 0.075
NearSpecularCutoff == Float(3, 40)

\* C19 as stated: when the material roughness is below the near-specular
\* cutoff the roughness test, and so check_similarity_heuristics, rejects the
\* temporal neighbor, even when the two roughness values are identical.
C19_Original ==
    (/\ pc = "checked"
     /\ FLt(current_material_roughness, NearSpecularCutoff))
    => /\ ~roughness_similarity_passed
       /\ ~similarity_passed

\* the sums of the resampling weights and of the confidences of a sequence
\* of candidates
RECURSIVE SumWeights(_)
SumWeights(cs) == IF cs = <<>> THEN 0 ELSE Head(cs).weight + SumWeights(Tail(cs))

RECURSIVE SumM(_)
SumM(cs) == IF cs = <<>> THEN 0 ELSE Head(cs).M + SumM(Tail(cs))

\* C12: after any sequence of combine operations on a fresh reservoir,
\* weight_sum is the exact sum of the resampling weights of the candidates
\* combined and M the sum of their candidate_M, whatever the random draws
\* were, and both are >= 0.
C12_CombineBookkeeping ==
    /\ working_reservoir.weight_sum = FromInt(SumWeights(combined))
    /\ working_reservoir.M = SumM(combined)
    /\ ~FLt(working_reservoir.weight_sum, FromInt(0))
    /\ working_reservoir.weight_sum.d # 0
    /\ working_reservoir.M >= 0

\* three candidates combined, the second one retained although the third
\* has a positive weight too
C12_Witness ==
    /\ Len(combined) = 3
    /\ working_reservoir.sample.emissive_triangle_index = 2
    /\ combined[3].weight > 0
    /\ combined[1].weight > 0
    /\ working_reservoir.weight_sum = FromInt(SumWeights(combined))

\* C13: a candidate whose resampling weight is 0 is never the retained
\* sample: the sample of the reservoir is none or that of a candidate with a
\* resampling weight > 0, also when the zero-weight candidate comes first;
\* and a reservoir whose sample is none has weight_sum = 0.
C13_ZeroWeightNeverRetained ==
    LET k == working_reservoir.sample.emissive_triangle_index
    IN  /\ k # -1 => /\ k \in 1..Len(combined)
                     /\ combined[k].sample.emissive_triangle_index = k
                     /\ combined[k].weight > 0
        /\ k = -1 => FIsZero(working_reservoir.weight_sum)

\* a first candidate with a sample and weight 0 is not retained; a later
\* candidate with a positive weight is
C13_Witness ==
    /\ Len(combined) = 2
    /\ combined[1].sample.emissive_triangle_index = 1
    /\ combined[1].weight = 0
    /\ combined[2].weight > 0
    /\ working_reservoir.sample.emissive_triangle_index = 2

\* the pass of the worked example: center target function 2, temporal target
\* function 6, initial-candidate resampling weight 2 x 5 / 2 = 5 and temporal
\* resampling weight 2 x 5 = 10 before m_i, both neighbors present
WorkedExample ==
    /\ bias_correction_mode = "RESTIR_DI_BIAS_CORRECTION_MIS_GBH"
    /\ ~temporal_buffer_clear_requested
    /\ center_pixel_surface.luminance = 2
    /\ temporal_neighbor_surface.luminance = 6
    /\ initial_candidates_reservoir.sample # NoSample
    /\ temporal_neighbor_reservoir.sample # NoSample
    /\ initial_candidates_reservoir.weight = Float(5, 2)
    /\ jacobian = FromInt(5)
    /\ initial_candidates_M # 0
    /\ temporal_neighbor_reservoir.M # 0
    /\ similarity_passed

\* C14: in the worked example in MIS-GBH mode the MIS weights are
\* m_center = 0.25 and m_temporal = 0.75, the combined weight_sum is
\* 1.25 + 7.5 = 8.75, and the normalization is 1 / 1, which leaves the final
\* weight_sum at 8.75.
C14_WorkedExample ==
    WorkedExample
    => /\ pc = "CombineInitialCandidates"
          => /\ mis_weight = Float(1, 4)
             /\ working_reservoir.weight_sum = Float(5, 4)
       /\ pc = "CombineTemporalNeighbor"
          => /\ mis_weight = Float(3, 4)
             /\ combined[2].weight = Float(15, 2)
             /\ working_reservoir.weight_sum = Float(35, 4)
       /\ pc # "TemporalNeighborSkipped"
       /\ pc = "Finalize"
          => /\ out_normalization_nume = FromInt(1)
             /\ out_normalization_denom = FromInt(1)
             /\ FDiv(FMul(working_reservoir.weight_sum, out_normalization_nume),
                     out_normalization_denom) = Float(35, 4)

\* the worked example, finalized
C14_Witness ==
    /\ WorkedExample
    /\ pc = "Finalize"
    /\ working_reservoir.weight_sum = Float(35, 4)
    /\ out_normalization_denom = FromInt(1)

\* C21 as stated: for every sample and surface the target function with
\* visibility equals the one without visibility when the shadow ray reports
\* unoccluded and is 0 when it reports occluded; it casts at most one shadow
\* ray, and none when the value without visibility is already 0.
C21_Original ==
    pc = "TargetFunction_TRUE"
    => LET unoccluded ==
               ReSTIR_DI_evaluate_target_function_FALSE(reservoir.sample, tf_surface)
       IN  /\ ~tf_surface.occluded => tf_value = unoccluded.value /\ ~FIsNaN(tf_value)
           /\ tf_surface.occluded => FIsZero(tf_value)
           /\ shadow_rays <= 1
           /\ FIsZero(unoccluded.value) => shadow_rays = 0

\* the same, for the surfaces that are not at the light point
C21_OffLight ==
    (pc = "TargetFunction_TRUE" /\ ~tf_surface.at_light)
    => LET unoccluded ==
               ReSTIR_DI_evaluate_target_function_FALSE(reservoir.sample, tf_surface)
       IN  /\ ~tf_surface.occluded => tf_value = unoccluded.value
           /\ tf_surface.occluded => FIsZero(tf_value)
           /\ shadow_rays <= 1
           /\ FIsZero(unoccluded.value) => shadow_rays = 0

\* the neighbor the call was not made for
OtherNeighbor ==
    IF current_neighbor = TEMPORAL_NEIGHBOR_ID
    THEN INITIAL_CANDIDATES_ID
    ELSE TEMPORAL_NEIGHBOR_ID

\* w lies in [0, 1]
InUnitInterval(w) == w.d # 0 /\ w.n >= 0 /\ w.n <= w.d

\* the two weights w and other are a partition of unity when the denominator
\* is not 0, and both 0 when it is
PartitionOfUnity(w, other, denom) ==
    /\ InUnitInterval(w)
    /\ InUnitInterval(other)
    /\ ~FIsZero(denom) => FAdd(w, other) = FromInt(1)
    /\ FIsZero(denom) => FIsZero(w) /\ FIsZero(other)

\* C29: for one sample, one pair of surfaces and M values with temporal
\* M != 0, the MIS-GBH weight of the temporal neighbor plus that of the
\* initial candidates is 1 whenever the denominator is not 0, each weight is
\* in [0, 1], and both are 0 when the denominator is 0; likewise with
\* confidence weights.
C29_PartitionOfUnity ==
    /\ (pc = "MISWeight_MIS_GBH" /\ temporal_neighbor_M # 0)
       => PartitionOfUnity(
              mis_weight,
              MISWeight_MIS_GBH(reservoir, temporal_neighbor_surface,
                                center_pixel_surface, initial_candidates_M,
                                temporal_neighbor_M, OtherNeighbor).ret,
              FAdd(TargetAt(temporal_neighbor_surface), TargetAt(center_pixel_surface)))
    /\ (pc = "MISWeight_MIS_GBH_CONFIDENCE_WEIGHTS" /\ temporal_neighbor_M # 0)
       => PartitionOfUnity(
              mis_weight,
              MISWeight_MIS_GBH_CONFIDENCE_WEIGHTS(
                  reservoir, temporal_neighbor_surface, center_pixel_surface,
                  initial_candidates_M, temporal_neighbor_M, OtherNeighbor).ret,
              FAdd(FMul(TargetAt(temporal_neighbor_surface), FromInt(temporal_neighbor_M)),
                   FMul(TargetAt(center_pixel_surface), FromInt(initial_candidates_M))))

\* two weights strictly between 0 and 1 that add up to 1
C29_Witness ==
    /\ pc = "MISWeight_MIS_GBH"
    /\ temporal_neighbor_M # 0
    /\ current_neighbor = TEMPORAL_NEIGHBOR_ID
    /\ mis_weight = Float(2, 3)
    /\ MISWeight_MIS_GBH(reservoir, temporal_neighbor_surface, center_pixel_surface,
                         initial_candidates_M, temporal_neighbor_M,
                         INITIAL_CANDIDATES_ID).ret = Float(1, 3)

\* the three launch functions of an iteration of render(), in order
LaunchOrder == <<"launch_camera_rays", "launch_ReSTIR_DI", "launch_path_tracing">>

\* a launch function of render() has just been called
AtKernelLaunch ==
    pc \in {"launch_camera_rays", "launch_ReSTIR_DI", "launch_path_tracing"}

\* the launch functions called so far in the iteration, given where render() is
LaunchedInOrder ==
    /\ pc = "launch_camera_rays" => launched = SubSeq(LaunchOrder, 1, 1)
    /\ pc = "launch_ReSTIR_DI" => launched = SubSeq(LaunchOrder, 1, 2)
    /\ pc = "launch_path_tracing" => launched = LaunchOrder
    /\ ~AtKernelLaunch => launched = <<>>

AllThreadsReturned == thread_returned = Threads

\* the texture indices thread t has gone through so far
HandledBy(t) == {index \in TextureIndices : index % nb_threads = t /\ index < thread_index[t]}

\* no texture index is read twice or by a thread other than index % nb_threads,
\* no slot of textures[] or textures_dims[] is written twice, thread t has
\* read exactly t, t + nb_threads, ... below its thread_index, and once every
\* thread has returned every index has been read
EveryTextureOnce ==
    /\ \A index \in TextureIndices :
           /\ Len(processed_by[index]) <= 1
           /\ Len(textures[index]) <= 1
           /\ Len(textures_dims[index]) <= 1
           /\ \A k \in 1..Len(processed_by[index]) :
                  processed_by[index][k] = index % nb_threads
           /\ textures[index] = textures_dims[index]
           /\ textures[index] = IF index \in constant_emissive
                                THEN <<>> ELSE processed_by[index]
    /\ \A t \in Threads :
           /\ thread_index[t] % nb_threads = t
           /\ \A index \in TextureIndices :
                  (processed_by[index] = <<t>>) <=> index \in HandledBy(t)
    /\ AllThreadsReturned
           => \A index \in TextureIndices : Len(processed_by[index]) = 1

\* C30: with thread_index values 0..nb_threads-1, every texture index is
\* processed by exactly one thread, thread t handling t, t + nb_threads, ...;
\* no two threads write the same slot of textures[] or textures_dims[]; and
\* every thread terminates.
C30_EveryTextureOnceAndTermination ==
    []EveryTextureOnce /\ <>[]AllThreadsReturned

\* three threads have loaded four textures, thread 0 the textures 0 and 3
C30_Witness ==
    /\ nb_threads = 3
    /\ textures_size = 4
    /\ constant_emissive = {1}
    /\ AllThreadsReturned
    /\ processed_by = [index \in TextureIndices |-> <<index % 3>>]
    /\ textures[3] = <<0>>
    /\ textures[1] = <<>>
    /\ thread_index[0] = 6

\* the scaled weight the pass leaves on the retained sample: weight_sum x
\* numerator / denominator
OutputScaledWeight ==
    FMul(working_reservoir.weight_sum,
         FDiv(out_normalization_nume, out_normalization_denom))

\* what the initial-candidates reservoir puts on its sample at the pixel:
\* target function at the pixel's surface x its contribution weight
InitialScaledWeight ==
    FMul(ReSTIR_DI_evaluate_target_function(
             ReSTIR_DI_BiasCorrectionUseVisiblity,
             initial_candidates_reservoir.sample, center_pixel_surface).value,
         initial_candidates_reservoir.weight)

PassOutput ==
    [sample |-> working_reservoir.sample,
     weight_sum |-> working_reservoir.weight_sum,
     M |-> working_reservoir.M,
     normalization |-> <<out_normalization_nume, out_normalization_denom>>]

\* the initial candidates' resampling weight when the temporal neighbor has
\* the confidence tnM at the time m_i is computed
InitialCandidatesWeight(tnM) ==
    FMul(InitialScaledWeight,
         get_resampling_MIS_weight(
             bias_correction_mode, initial_candidates_reservoir,
             [sample |-> temporal_neighbor_reservoir.sample, M |-> tnM,
              weight_sum |-> 0],
             temporal_neighbor_surface, center_pixel_surface,
             initial_candidates_M, tnM, INITIAL_CANDIDATES_ID).ret)

\* the output of the pass for the same pixel when m_i of the initial
\* candidates is computed with the temporal confidence tnM and the temporal
\* neighbor is not combined: a fresh reservoir retains the candidate exactly
\* if its weight is > 0
OutputWithoutTemporalNeighbor(tnM) ==
    LET w == InitialCandidatesWeight(tnM)
        res == combine(FreshReservoir, initial_candidates_reservoir.sample, w,
                       initial_candidates_M, FromInt(0))
        n == get_normalization(bias_correction_mode, NormalizedReservoir(res),
                               initial_candidates_M, 0, center_pixel_surface,
                               temporal_neighbor_surface, INITIAL_CANDIDATES_ID)
    IN  [sample |-> res.sample, weight_sum |-> res.weight_sum, M |-> res.M,
         normalization |-> n.ret]

\* the temporal neighbor of the task failed the heuristics or had its
\* jacobian rejected
NeighborDiscarded == ~similarity_passed \/ jacobian = FromInt(-1)

\* the neighbor passed the gate with M > 0 and was rejected by its jacobian
RejectedByJacobian ==
    /\ similarity_passed
    /\ ~temporal_buffer_clear_requested
    /\ temporal_neighbor_reservoir.M > 0
    /\ jacobian = FromInt(-1)

\* the modes whose m_i of the initial candidates reads the temporal neighbor
MIS_GBH_Modes ==
    {"RESTIR_DI_BIAS_CORRECTION_MIS_GBH",
     "RESTIR_DI_BIAS_CORRECTION_MIS_GBH_CONFIDENCE_WEIGHTS"}

C23_DiscardedNeighbor ==
    (pc = "Finalize" /\ NeighborDiscarded)
    => /\ Len(combined) = 1
       /\ working_reservoir.weight_sum.d # 0
       /\ ~FLt(working_reservoir.weight_sum, FromInt(0))
       /\ (RejectedByJacobian /\ bias_correction_mode \in MIS_GBH_Modes)
          => PassOutput = OutputWithoutTemporalNeighbor(temporal_neighbor_reservoir.M)
       /\ ~(RejectedByJacobian /\ bias_correction_mode \in MIS_GBH_Modes)
          => PassOutput = OutputWithoutTemporalNeighbor(0)
       /\ PassOutput.sample = OutputWithoutTemporalNeighbor(0).sample
       /\ PassOutput.M = OutputWithoutTemporalNeighbor(0).M
       /\ PassOutput.normalization = OutputWithoutTemporalNeighbor(0).normalization

\* the states of a pixel task, in the order of the pass
PixelTaskStates ==
    <<"Start", "HeuristicsGate", "CombineInitialCandidates",
      "CombineTemporalNeighbor", "Finalize">>

\* the position of the state q in that order
StateRank(q) == CHOOSE k \in 1..Len(PixelTaskStates) : PixelTaskStates[k] = q

\* the task has been in the state q
HasVisited(q) == \E k \in 1..Len(visited) : visited[k] = q

\* the visited states come in the order of the pass, from Start, none twice,
\* and only CombineTemporalNeighbor may be left out
VisitedInOrder ==
    /\ Len(visited) >= 1
    /\ visited[1] = "Start"
    /\ \A k \in 1..Len(visited) :
           \E r \in 1..Len(PixelTaskStates) : visited[k] = PixelTaskStates[r]
    /\ \A k \in 1..(Len(visited) - 1) :
           LET here == StateRank(visited[k])
               next == StateRank(visited[k + 1])
           IN  \/ next = here + 1
               \/ /\ visited[k] = "CombineInitialCandidates"
                  /\ visited[k + 1] = "Finalize"

\* what every state of a pixel task satisfies
PixelTaskOrder ==
    /\ VisitedInOrder
    /\ HasVisited("CombineTemporalNeighbor")
           => /\ similarity_passed
              /\ jacobian # FromInt(-1)
              /\ Len(combined) = 2
    /\ ~HasVisited("CombineTemporalNeighbor") => Len(combined) <= 1
    /\ ~HasVisited("HeuristicsGate")
           => /\ tf_calls = 0
              /\ mis_weight = Unset
              /\ combined = <<>>
              /\ working_reservoir = FreshReservoir
    /\ reservoirs_written = (IF HasVisited("Finalize") THEN 1 ELSE 0)
    /\ pc = "Finalize" <=> HasVisited("Finalize")

NbPixels == 2

\* frame boundaries crossed
MaxFrames == 2

Pixels == 0..(NbPixels - 1)

\* reservoirs, abstracted to a few values; 0 is the empty reservoir
ReservoirValues == 0..2

\* what initial sampling may leave at a pixel
InitialCandidateValues == {0, 1}

\* the reprojections of a frame: the camera did not move, or moved by a pixel
Reprojections ==
    {[p \in Pixels |-> p], [p \in Pixels |-> (p + 1) % NbPixels]}

\* the reservoir a task produces from its initial candidates and its
\* temporal neighbor; it depends on both
resample(initial, temporal) ==
    (initial + 2 * temporal) % Cardinality(ReservoirValues)

\* bug: the temporal neighbor is read in the buffer being written
Mutant_temporal_input_buffer_Current(current) == current

\* the buffer the temporal neighbors are read from: the one not written
temporal_input_buffer(current) == 1 - current

InitBuffers ==
    /\ pc = "temporal_pass"
    /\ IdlePixel
    /\ IdleRenderer
    /\ IdleThreads
    /\ reservoir_buffers = [b \in 0..1 |-> [p \in Pixels |-> 0]]
    /\ current_buffer_index = 0
    /\ initial_candidates_buffer \in [Pixels -> InitialCandidateValues]
    /\ reprojected_pixel \in Reprojections
    /\ task_pc = [p \in Pixels |-> "launched"]
    /\ task_registers = [p \in Pixels |-> <<>>]
    /\ previous_at_launch = [p \in Pixels |-> 0]
    /\ reservoir_reads = {}
    /\ reservoir_writes = {}
    /\ frames_rendered = 0

\* what no step on the buffers changes
BufferStepUnchanged == UNCHANGED <<pc, pixelVars, rendererVars, threadVars>>

\* the task of pixel p loads its initial candidates and its temporal neighbor
load_inputs(p) ==
    /\ pc = "temporal_pass"
    /\ task_pc[p] = "launched"
    /\ task_pc' = [task_pc EXCEPT ![p] = "loaded"]
    /\ \E source \in {temporal_input_buffer(current_buffer_index)} :
           /\ task_registers' =
                  [task_registers EXCEPT ![p] =
                       [initial |-> initial_candidates_buffer[p],
                        temporal |-> reservoir_buffers[source][reprojected_pixel[p]]]]
           /\ reservoir_reads' = reservoir_reads \cup
                  {[task |-> p, kind |-> "initial_candidates", index |-> -1,
                    pixel |-> p],
                   [task |-> p, kind |-> "reservoir", index |-> source,
                    pixel |-> reprojected_pixel[p]]}
    /\ UNCHANGED <<reservoir_buffers, current_buffer_index,
                   initial_candidates_buffer, reprojected_pixel,
                   previous_at_launch, reservoir_writes, frames_rendered>>
    /\ BufferStepUnchanged

\* the task of pixel p writes its reservoir to the current buffer
write_reservoir(p) ==
    /\ pc = "temporal_pass"
    /\ task_pc[p] = "loaded"
    /\ task_pc' = [task_pc EXCEPT ![p] = "done"]
    /\ reservoir_buffers' =
           [reservoir_buffers EXCEPT ![current_buffer_index][p] =
                resample(task_registers[p].initial, task_registers[p].temporal)]
    /\ reservoir_writes' = reservoir_writes \cup
           {[task |-> p, index |-> current_buffer_index, pixel |-> p]}
    /\ UNCHANGED <<current_buffer_index, initial_candidates_buffer,
                   reprojected_pixel, task_registers, previous_at_launch,
                   reservoir_reads, frames_rendered>>
    /\ BufferStepUnchanged

\* the frame boundary: the pass is complete, the buffers exchange roles and
\* the pass of the next frame is launched on new initial candidates
next_frame ==
    /\ pc = "temporal_pass"
    /\ \A p \in Pixels : task_pc[p] = "done"
    /\ frames_rendered < MaxFrames
    /\ frames_rendered' = frames_rendered + 1
    /\ current_buffer_index' = 1 - current_buffer_index
    /\ previous_at_launch' = reservoir_buffers[current_buffer_index]
    /\ initial_candidates_buffer' \in [Pixels -> InitialCandidateValues]
    /\ reprojected_pixel' \in Reprojections
    /\ task_pc' = [p \in Pixels |-> "launched"]
    /\ task_registers' = [p \in Pixels |-> <<>>]
    /\ reservoir_reads' = {}
    /\ reservoir_writes' = {}
    /\ UNCHANGED reservoir_buffers
    /\ BufferStepUnchanged

NextBuffers ==
    \/ \E p \in Pixels : load_inputs(p)
    \/ \E p \in Pixels : write_reservoir(p)
    \/ next_frame

\* the passes over the reservoir buffers
SpecBuffers == InitBuffers /\ [][NextBuffers]_vars

\* C25: under any interleaving of the tasks of a pass, a task reads only its
\* own initial-candidates reservoir and the previous-frame buffer, never a
\* reservoir of the current buffer, which each task writes at its own pixel
\* only; the previous-frame buffer is as it was when the pass was launched;
\* the buffers exchange roles only at a frame boundary; and the reservoir a
\* task has written is the one function of the inputs of the pass, whatever
\* the other tasks have done.
C25_DoubleBuffering ==
    /\ \A r \in reservoir_reads :
           /\ r.kind = "initial_candidates" => r.pixel = r.task
           /\ r.kind = "reservoir" => r.index = 1 - current_buffer_index
           /\ \A w \in reservoir_writes :
                  ~(r.kind = "reservoir" /\ r.index = w.index /\ r.pixel = w.pixel)
    /\ \A w \in reservoir_writes :
           /\ w.index = current_buffer_index
           /\ w.pixel = w.task
    /\ reservoir_buffers[1 - current_buffer_index] = previous_at_launch
    /\ current_buffer_index = frames_rendered % 2
    /\ \A p \in Pixels :
           task_pc[p] = "done"
           => reservoir_buffers[current_buffer_index][p] =
                  resample(initial_candidates_buffer[p],
                           previous_at_launch[reprojected_pixel[p]])

\* the pass of a later frame is complete, every task having read the
\* reservoir another pixel wrote in the frame before, and these reservoirs
\* differ from what the pass wrote at the same pixels
C25_Witness ==
    /\ frames_rendered >= 1
    /\ \A p \in Pixels : task_pc[p] = "done"
    /\ \A p \in Pixels : reprojected_pixel[p] # p
    /\ \E p \in Pixels :
           /\ previous_at_launch[reprojected_pixel[p]] # 0
           /\ reservoir_buffers[current_buffer_index][reprojected_pixel[p]]
                  # previous_at_launch[reprojected_pixel[p]]
    /\ Cardinality(reservoir_writes) = NbPixels
====
